---- MODULE Spec2Model ----
(***************************************************************************)
(* A model of adflib's ADF image engine (src/src/disk.rs, consts.rs).      *)
(*                                                                         *)
(* The image is the pair (data, bitmap) of struct ADF.  Both are kept in   *)
(* a compact form that determines every byte and every flag:               *)
(*  - data is a map from sector number to block that holds the sectors     *)
(*    with a non-zero byte only, and a block is a map from byte offset     *)
(*    (0-based, as in the source) to byte that holds the non-zero bytes    *)
(*    only; what is absent is zero;                                        *)
(*  - bitmap is the Vec<bool> kept as its length and its edges, the        *)
(*    indices whose flag differs from the flag before them (the flag       *)
(*    before index 0 counting as false).                                   *)
(* Byte vectors that are arguments (sector payloads, names, paths) are     *)
(* sequences.                                                              *)
(***************************************************************************)
EXTENDS Integers, Sequences, FiniteSets, TLC

VARIABLES data, bitmap, file, last, nops, dms

vars == <<data, bitmap, file, last, nops, dms>>

(***************************************************************************)
(* Program constants (consts.rs) and the ones disk.rs uses but consts.rs   *)
(* does not define.                                                        *)
(***************************************************************************)
ADF_SECTOR_SIZE == 512
ADF_NUM_SECTORS == 1760
ADF_TRACK_SIZE == 11 * ADF_SECTOR_SIZE
ADF_NUM_TRACKS == 80 * 2
ROOT_BLOCK == 880
FILE_SIZE_OFFSET == 4
FILE_NAME_LEN_OFFSET == 432
FILE_NAME_OFFSET == 433
FILE_PROTECTION_OFFSET == 436
FILE_DAYS_OFFSET == 440
FILE_MINS_OFFSET == 444
FILE_TICKS_OFFSET == 448
ROOT_BLOCK_NAME_LEN_OFFSET == ADF_SECTOR_SIZE - 80
ROOT_BLOCK_NAME_OFFSET == ADF_SECTOR_SIZE - 79
ROOT_BLOCK_DAYS_OFFSET == ADF_SECTOR_SIZE - 92
ROOT_BLOCK_MINS_OFFSET == ADF_SECTOR_SIZE - 88
ROOT_BLOCK_TICKS_OFFSET == ADF_SECTOR_SIZE - 84
ROOT_BLOCK_HASH_TABLE_SIZE == 72
ROOT_BLOCK_BITMAP_FLAG_OFFSET == ADF_SECTOR_SIZE - 200
SECONDS_PER_DAY == 86400
SECONDS_PER_MINUTE == 60
TICKS_PER_SECOND == 50
BLOCK_TYPE_OFFSET == 0
BLOCK_TYPE_DIRECTORY == 2

\* Not defined in consts.rs: taken from the data model of the specification
\* (hash table of 72 longs at bytes 24..311, names of at most 30 bytes,
\* bitmap block 881, 1024-byte boot block "DOS" + flag byte) and from
\* tests.rs (the variant byte of the root block is byte 512 - 4).
DIR_ENTRY_START_INDEX == 6
DIR_ENTRY_END_INDEX == 77
MAX_NAME_LENGTH == 30
BITMAP_BLOCK == 881
BOOT_BLOCK_SIZE == 1024
BOOT_BLOCK_SIGNATURE == <<68, 79, 83>>
BOOT_BLOCK_SIGNATURE_SIZE == 3
BOOT_BLOCK_FLAGS_OFFSET == 3
FILESYSTEM_TYPE_OFS == 0
FILESYSTEM_TYPE_FFS == 1
ROOT_BLOCK_DISK_TYPE_OFFSET == ADF_SECTOR_SIZE - 4
ROOT_BLOCK_HASH_TABLE_SIZE_OFFSET == 12
ROOT_BLOCK_BITMAP_COUNT == 1
ROOT_BLOCK_BITMAP_POINTERS_OFFSET == ADF_SECTOR_SIZE - 196
BITMAP_HEADER_OFFSET == 0
BITMAP_HEADER_VALUE == 248
BITMAP_FLAG_OFFSET == 4
BITMAP_VALID_OFFSET == 5
DIR_PARENT_OFFSET == ADF_SECTOR_SIZE - 12

\* The OFS data block of the data model of the specification: the long 8
\* (T_DATA) at byte 0, header key, sequence number, data size and next
\* data block at bytes 4, 8, 12 and 16, 488 payload bytes from byte 24 on.
OFS ==
    [T_DATA |-> 8, type |-> 0, header_key |-> 4, seqnum |-> 8, data_size |-> 12, next |-> 16,
     payload |-> 24, payload_size |-> 488]

(***************************************************************************)
(* Bytes, big-endian words, blocks.                                        *)
(***************************************************************************)
\* usize / u32 values the model can hold exactly; a larger value is kept as
\* this one (it is only ever compared with 0 and used as a sector number,
\* and every sector number from ADF_NUM_SECTORS on is outside the image)
MaxInt == 2147483647

Min(a, b) == IF a < b THEN a ELSE b

Results(k, m) == [kind |-> k, msg |-> m]
Ok == Results("Ok", "")
Panic == Results("Panic", "index out of bounds")

\* vec![v; n]
Fill(v, n) == [i \in 1..n |-> v]

\* the block of 512 zero bytes
ZeroBlock == [o \in {} |-> 0]

\* byte off of a block (or of any byte array kept as a block)
At(b, off) == IF off \in DOMAIN b THEN b[off] ELSE 0

\* the block that holds a byte sequence, and the first n bytes of a block
Block(bytes) == [o \in {x \in 0..(Len(bytes) - 1) : bytes[x + 1] # 0} |-> bytes[o + 1]]
Bytes(b, n) ==
    LET dom == DOMAIN b
    IN  [i \in 1..n |-> IF (i - 1) \in dom THEN b[i - 1] ELSE 0]

\* u32::from_be_bytes of the 4 bytes of b at byte offset off, as usize
from_be_bytes(b, off) ==
    IF At(b, off) >= 128 THEN MaxInt
    ELSE At(b, off) * 16777216 + At(b, off + 1) * 65536 + At(b, off + 2) * 256 + At(b, off + 3)

\* a u32 field that is only reported: its 4 big-endian bytes
Word(b, off) == <<At(b, off), At(b, off + 1), At(b, off + 2), At(b, off + 3)>>

\* u32::to_be_bytes
to_be_bytes(w) ==
    <<(w \div 16777216) % 256, (w \div 65536) % 256, (w \div 256) % 256, w % 256>>

\* u16::to_be_bytes
to_be_bytes16(w) == <<(w \div 256) % 256, w % 256>>

\* b[off..off + len].copy_from_slice(bytes)
copy_from_slice(b, off, bytes) ==
    LET range == off..(off + Len(bytes) - 1)
        dom == (DOMAIN b \ range) \cup {o \in range : bytes[o - off + 1] # 0}
    IN  [o \in dom |-> IF o \in range THEN bytes[o - off + 1] ELSE b[o]]

\* b[off] = v
SetByte(b, off, v) == copy_from_slice(b, off, <<v>>)

\* &b[from..to], as a byte sequence
Slice(b, from, to) == [i \in 1..(to - from) |-> At(b, from + i - 1)]

\* the first n elements of a sequence
Take(s, n) == [i \in 1..n |-> s[i]]

\* the elements of a sequence after the first n
Drop(s, n) == [i \in 1..(Len(s) - n) |-> s[n + i]]

(***************************************************************************)
(* String::from_utf8_lossy, on byte sequences: a String is kept as its     *)
(* UTF-8 bytes; every maximal ill-formed part becomes U+FFFD (EF BF BD).   *)
(***************************************************************************)
REPLACEMENT == <<239, 191, 189>>

IsCont(x) == x >= 128 /\ x <= 191

\* the range the second byte of a sequence led by b0 must lie in
SecondOk(b0, b1) ==
    CASE b0 = 224 -> b1 >= 160 /\ b1 <= 191
      [] b0 = 237 -> b1 >= 128 /\ b1 <= 159
      [] b0 = 240 -> b1 >= 144 /\ b1 <= 191
      [] b0 = 244 -> b1 >= 128 /\ b1 <= 143
      [] OTHER -> IsCont(b1)

\* the length of the sequence a lead byte announces (0: not a lead byte)
Width(b0) ==
    IF b0 < 128 THEN 1
    ELSE IF b0 >= 194 /\ b0 <= 223 THEN 2
    ELSE IF b0 >= 224 /\ b0 <= 239 THEN 3
    ELSE IF b0 >= 240 /\ b0 <= 244 THEN 4
    ELSE 0

\* the number of bytes of s that form a valid prefix of a sequence of width w
RECURSIVE ValidPrefix(_, _, _)
ValidPrefix(s, w, k) ==
    IF k >= w \/ k >= Len(s) THEN k
    ELSE IF k = 1 /\ ~SecondOk(s[1], s[2]) THEN k
    ELSE IF k > 1 /\ ~IsCont(s[k + 1]) THEN k
    ELSE ValidPrefix(s, w, k + 1)

RECURSIVE from_utf8_lossy(_)
from_utf8_lossy(s) ==
    IF Len(s) = 0 THEN <<>>
    ELSE LET w == Width(s[1])
             k == IF w = 0 THEN 1 ELSE ValidPrefix(s, w, 1)
         IN  IF w > 0 /\ k = w
             THEN Take(s, w) \o from_utf8_lossy(Drop(s, w))
             ELSE REPLACEMENT \o from_utf8_lossy(Drop(s, k))

(***************************************************************************)
(* The block device.                                                       *)
(***************************************************************************)
\* the image with every byte zero (data.fill(0), vec![0; ...])
ZeroData == [s \in {} |-> ZeroBlock]

\* true when data[sector * 512 .. sector * 512 + 512] is inside the buffer
InRange(sector) ==
    sector < ADF_NUM_SECTORS /\ sector * ADF_SECTOR_SIZE + ADF_SECTOR_SIZE =< ADF_TRACK_SIZE * ADF_NUM_TRACKS

\* the slice an in-range sector is
read_sector(d, sector) == IF sector \in DOMAIN d THEN d[sector] ELSE ZeroBlock

\* the buffer with the 512 bytes of an in-range sector replaced by a block
Store(d, sector, blk) ==
    LET keep == IF DOMAIN blk = {} THEN DOMAIN d \ {sector} ELSE DOMAIN d \cup {sector}
    IN  [s \in keep |-> IF s = sector THEN blk ELSE d[s]]

\* write_sector with the offset of the next sector
write_sector_next(d, sector, bytes) ==
    IF Len(bytes) # ADF_SECTOR_SIZE
    THEN [res |-> Results("InvalidInput", "Invalid sector data size"), data |-> d]
    ELSE IF ~InRange(sector + 1)
    THEN [res |-> Panic, data |-> d]
    ELSE [res |-> Ok, data |-> Store(d, sector + 1, Block(bytes))]

write_sector(d, sector, bytes) ==
    IF Len(bytes) # ADF_SECTOR_SIZE
    THEN [res |-> Results("InvalidInput", "Invalid sector data size"), data |-> d]
    ELSE IF ~InRange(sector)
    THEN [res |-> Panic, data |-> d]
    ELSE [res |-> Ok, data |-> Store(d, sector, Block(bytes))]

\* write_sector of a 512-byte array that is at hand as a block
write_block(d, sector, blk) ==
    IF ~InRange(sector) THEN [res |-> Panic, data |-> d]
    ELSE [res |-> Ok, data |-> Store(d, sector, blk)]

\* &self.data[0..2 * ADF_SECTOR_SIZE], as 1024 bytes
read_boot_block(d) == Bytes(read_sector(d, 0), ADF_SECTOR_SIZE) \o Bytes(read_sector(d, 1), ADF_SECTOR_SIZE)

(***************************************************************************)
(* File headers and directory listing.                                     *)
(***************************************************************************)
\* FileInfo; creation_date is a checked (never panicking) function of the
\* three date words, which are reported as stored
NoInfo == [name |-> <<>>, size |-> <<0, 0, 0, 0>>, is_dir |-> FALSE,
           protection |-> <<0, 0, 0, 0>>, date |-> <<>>]

read_file_header(d, block) ==
    IF ~InRange(block) THEN [res |-> Panic, info |-> NoInfo]
    ELSE
    LET block_data == read_sector(d, block)
        name_len == At(block_data, FILE_NAME_LEN_OFFSET)
    IN  IF FILE_NAME_OFFSET + name_len > ADF_SECTOR_SIZE THEN [res |-> Panic, info |-> NoInfo]
        ELSE [res |-> Ok,
              info |-> [name |-> from_utf8_lossy(Slice(block_data, FILE_NAME_OFFSET, FILE_NAME_OFFSET + name_len)),
                        size |-> Word(block_data, FILE_SIZE_OFFSET),
                        is_dir |-> At(block_data, BLOCK_TYPE_OFFSET) = BLOCK_TYPE_DIRECTORY,
                        protection |-> Word(block_data, FILE_PROTECTION_OFFSET),
                        date |-> Word(block_data, FILE_DAYS_OFFSET) \o Word(block_data, FILE_MINS_OFFSET)
                                 \o Word(block_data, FILE_TICKS_OFFSET)]]

\* (DIR_ENTRY_START_INDEX..=DIR_ENTRY_END_INDEX).rev()
HashSlots == [k \in 1..(DIR_ENTRY_END_INDEX - DIR_ENTRY_START_INDEX + 1) |-> DIR_ENTRY_END_INDEX + 1 - k]

\* UsedSlots without the test `if sector != 0`
UsedSlotsNoSkip(block_data) == HashSlots

\* the hash table slots of a directory block that are not zero, in scan order
UsedSlots(block_data) ==
    SelectSeq(HashSlots, LAMBDA i : from_be_bytes(block_data, i * 4) # 0)

\* the non-zero hash table entries of a directory block, in scan order
Entries(block_data) ==
    LET slots == UsedSlots(block_data)
    IN  [k \in 1..Len(slots) |-> from_be_bytes(block_data, slots[k] * 4)]

list_directory(d, block) ==
    IF ~InRange(block) THEN [res |-> Panic, list |-> <<>>]
    ELSE
    LET es == Entries(read_sector(d, block))
        hs == [k \in 1..Len(es) |-> read_file_header(d, es[k])]
    IN  IF \E k \in 1..Len(es) : hs[k].res # Ok THEN [res |-> Panic, list |-> <<>>]
        ELSE [res |-> Ok, list |-> [k \in 1..Len(es) |-> hs[k].info]]

list_root_directory(d) == list_directory(d, ROOT_BLOCK)

(***************************************************************************)
(* The in-memory bitmap: Vec<bool>, true = free.                           *)
(***************************************************************************)
\* vec![true; n]
AllFree(n) == [len |-> n, edges |-> {0}]
\* vec![false; n]
AllUsed(n) == [len |-> n, edges |-> {}]

\* self.bitmap[i], for i < len: the flag changes at every edge up to i
IsFree(bm, i) == Cardinality({e \in bm.edges : e =< i}) % 2 = 1

\* self.bitmap[i] = status, for i < len
SetFlag(bm, i, status) ==
    IF IsFree(bm, i) = status THEN bm
    ELSE LET flip == {e \in {i, i + 1} : e < bm.len}
         IN  [bm EXCEPT !.edges = (@ \ flip) \cup (flip \ @)]

get_block_status(bm, i) == IF i < bm.len THEN IsFree(bm, i) ELSE FALSE

set_block_used(bm, i) == IF i < bm.len THEN SetFlag(bm, i, FALSE) ELSE bm

set_block_free(bm, i) == IF i < bm.len THEN SetFlag(bm, i, TRUE) ELSE bm

\* the index of the first true flag from index 2 on, or -1 (None): index 2
\* when it is free, else the first edge after it
find_free_block(bm) ==
    LET later == {e \in bm.edges : e > 2}
    IN  IF bm.len =< 2 THEN -1
        ELSE IF IsFree(bm, 2) THEN 2
        ELSE IF later = {} THEN -1
        ELSE CHOOSE e \in later : \A f \in later : e =< f

allocate_block(bm) ==
    LET block_index == find_free_block(bm)
    IN  IF block_index # -1
        THEN [res |-> Ok, block |-> block_index, bitmap |-> set_block_used(bm, block_index)]
        ELSE [res |-> Results("Other", "No free blocks available"), block |-> -1, bitmap |-> bm]

\* the maximal runs of true flags, as <<first index, index after the last>>
FreeRuns(bm) ==
    {<<e, IF \E f \in bm.edges : f > e THEN CHOOSE f \in bm.edges : f > e /\ \A g \in bm.edges : g > e => f =< g
          ELSE bm.len>> : e \in {x \in bm.edges : IsFree(bm, x)}}

\* the number of flags in a set of runs
RECURSIVE RunLength(_)
RunLength(runs) ==
    IF runs = {} THEN 0
    ELSE LET r == CHOOSE x \in runs : TRUE
         IN  (r[2] - r[1]) + RunLength(runs \ {r})

\* free_blocks lists the indices of the true flags in ascending order, so
\* free_blocks[i + count] - free_blocks[i] == count holds exactly when
\* free_blocks[i] and the count indices after it lie in one run, first for
\* the first index of the first run of more than count flags.  The length
\* of free_blocks minus count is a usize subtraction: with fewer than count
\* true flags it panics (and where it wraps, free_blocks[0 + count] is out
\* of bounds).  start is -1 for None.
find_contiguous_free_blocks(bm, count) ==
    LET runs == FreeRuns(bm)
        len == RunLength(runs)
        hits == {r[1] : r \in {x \in runs : x[2] - x[1] > count}}
    IN  IF count > len THEN [res |-> Panic, start |-> -1]
        ELSE IF hits = {} THEN [res |-> Ok, start |-> -1]
        ELSE [res |-> Ok, start |-> CHOOSE h \in hits : \A g \in hits : h =< g]

(***************************************************************************)
(* Checksums.                                                              *)
(***************************************************************************)
\* a u32 is kept as its 4 big-endian bytes.  The wrapping sum of the
\* big-endian words of the n bytes s (a short last chunk padded with zero
\* bytes) is added up in 16-bit halves; HalfSum adds the halves at byte
\* offset half of the chunks from .. to - 1
RECURSIVE HalfSum(_, _, _, _, _)
HalfSum(s, n, half, from, to) ==
    IF to =< from THEN 0
    ELSE IF to = from + 1
    THEN LET at(o) == IF o < n THEN s[o + 1] ELSE 0
         IN  at(from * 4 + half) * 256 + at(from * 4 + half + 1)
    ELSE LET mid == (from + to) \div 2
         IN  HalfSum(s, n, half, from, mid) + HalfSum(s, n, half, mid, to)

WordSum(b, n) ==
    LET s == Bytes(b, n)
        chunks == (n + 3) \div 4
        lo == HalfSum(s, n, 2, 0, chunks)
        hi == (HalfSum(s, n, 0, 0, chunks) + lo \div 65536) % 65536
    IN  to_be_bytes16(hi) \o to_be_bytes16(lo % 65536)

\* !checksum, of the n bytes data
calculate_checksum(b, n) == LET sum == WordSum(b, n) IN [i \in 1..4 |-> 255 - sum[i]]

(***************************************************************************)
(* The bitmap block.                                                       *)
(***************************************************************************)
\* 1 << (7 - bit)
Mask(bit) == <<128, 64, 32, 16, 8, 4, 2, 1>>[bit + 1]

\* the value of byte byte_index of the bitmap block before the checksum is
\* stored: block_index sets bit 7 - block_index % 8 of byte block_index / 8
\* when it is free, for the block indices 2..ADF_NUM_SECTORS - 1
BitmapByte(bm, byte_index) ==
    LET on(bit) == /\ byte_index * 8 + bit >= 2
                   /\ byte_index * 8 + bit < ADF_NUM_SECTORS
                   /\ IsFree(bm, byte_index * 8 + bit)
        v(bit) == IF on(bit) THEN Mask(bit) ELSE 0
    IN  v(0) + v(1) + v(2) + v(3) + v(4) + v(5) + v(6) + v(7)

BitmapBits(bm) ==
    LET bytes == [i \in 1..(ADF_NUM_SECTORS \div 8) |-> BitmapByte(bm, i - 1)]
    IN  Block(bytes)

update_bitmap_blocks(d, bm) ==
    IF bm.len < ADF_NUM_SECTORS THEN [res |-> Panic, data |-> d]
    ELSE
    LET bitmap_block_index == ROOT_BLOCK + 1
        bits == BitmapBits(bm)
        checksum_offset == 0
        checksum == calculate_checksum(bits, ADF_SECTOR_SIZE)
        bitmap_block == copy_from_slice(bits, checksum_offset, checksum)
    IN  write_block(d, bitmap_block_index, bitmap_block)

\* BitmapInfo: block_allocation_map[i + 1] is true when sector i is used
get_bitmap_info(d) ==
    LET bitmap_block == read_sector(d, ROOT_BLOCK + 1)
        is_free(i) == (At(bitmap_block, i \div 8) \div Mask(i % 8)) % 2 = 1
        map == [k \in 1..ADF_NUM_SECTORS |-> ~is_free(k - 1)]
        used == Cardinality({k \in 1..ADF_NUM_SECTORS : map[k]})
    IN  [total_blocks |-> ADF_NUM_SECTORS,
         free_blocks |-> ADF_NUM_SECTORS - used,
         used_blocks |-> used,
         block_allocation_map |-> map]

(***************************************************************************)
(* Format.                                                                 *)
(***************************************************************************)
DiskTypes == {"OFS", "FFS"}

TypeByte(disk_type) == IF disk_type = "OFS" THEN FILESYSTEM_TYPE_OFS ELSE FILESYSTEM_TYPE_FFS

\* self.data[..BOOT_BLOCK_SIZE].copy_from_slice(&boot_block): the 1024 bytes
\* are the sectors 0 and 1
write_boot_block(d, disk_type) ==
    LET b0 == copy_from_slice(ZeroBlock, 0, BOOT_BLOCK_SIGNATURE)
        boot_block == SetByte(b0, BOOT_BLOCK_FLAGS_OFFSET, TypeByte(disk_type))
        sector0 == [o \in {x \in DOMAIN boot_block : x < ADF_SECTOR_SIZE} |-> boot_block[o]]
        sector1 == [o \in {x - ADF_SECTOR_SIZE : x \in {y \in DOMAIN boot_block : y >= ADF_SECTOR_SIZE}}
                      |-> boot_block[o + ADF_SECTOR_SIZE]]
    IN  [res |-> Ok, data |-> Store(Store(d, 0, sector0), 1, sector1)]

\* the bitmap pointers of an FFS root block
RECURSIVE BitmapPointers(_, _)
BitmapPointers(root_block, i) ==
    IF i >= ROOT_BLOCK_BITMAP_COUNT THEN root_block
    ELSE BitmapPointers(copy_from_slice(root_block, ROOT_BLOCK_BITMAP_POINTERS_OFFSET + i * 4,
                                        to_be_bytes(ROOT_BLOCK + 1 + i)), i + 1)

\* now: SystemTime::now() as seconds since the epoch
write_root_block(d, disk_type, disk_name, now) ==
    LET r0 == SetByte(ZeroBlock, BLOCK_TYPE_OFFSET, BLOCK_TYPE_DIRECTORY)
        r1 == SetByte(r0, ROOT_BLOCK_DISK_TYPE_OFFSET, TypeByte(disk_type))
        r2 == copy_from_slice(r1, ROOT_BLOCK_HASH_TABLE_SIZE_OFFSET, to_be_bytes16(ROOT_BLOCK_HASH_TABLE_SIZE))
        r3 == IF disk_type = "FFS"
              THEN BitmapPointers(SetByte(r2, ROOT_BLOCK_BITMAP_FLAG_OFFSET, 255), 0)
              ELSE r2
        name_len == Min(Len(disk_name), MAX_NAME_LENGTH)
        r4 == SetByte(r3, ROOT_BLOCK_NAME_LEN_OFFSET, name_len)
        r5 == copy_from_slice(r4, ROOT_BLOCK_NAME_OFFSET, Take(disk_name, name_len))
        days == to_be_bytes(now \div SECONDS_PER_DAY)
        mins == to_be_bytes((now % SECONDS_PER_DAY) \div SECONDS_PER_MINUTE)
        ticks == to_be_bytes((now % SECONDS_PER_MINUTE) * TICKS_PER_SECOND)
        r6 == copy_from_slice(r5, ROOT_BLOCK_DAYS_OFFSET, days)
        r7 == copy_from_slice(r6, ROOT_BLOCK_MINS_OFFSET, mins)
        root_block == copy_from_slice(r7, ROOT_BLOCK_TICKS_OFFSET, ticks)
    IN  write_block(d, ROOT_BLOCK, root_block)

\* [0xFFu8; ADF_SECTOR_SIZE]
FullBlock == Block(Fill(255, ADF_SECTOR_SIZE))

\* the first block write_bitmap_blocks writes
FormatBitmapBlock ==
    SetByte(SetByte(SetByte(FullBlock, BITMAP_HEADER_OFFSET, BITMAP_HEADER_VALUE),
                    BITMAP_FLAG_OFFSET, 255), BITMAP_VALID_OFFSET, 255)

write_bitmap_blocks(d) ==
    LET w1 == write_block(d, BITMAP_BLOCK, FormatBitmapBlock)
    IN  IF w1.res # Ok THEN w1
        ELSE write_block(w1.data, BITMAP_BLOCK + 1, FullBlock)

\* format leaves self.bitmap as it is
format(d, bm, disk_type, disk_name, now) ==
    LET w1 == write_boot_block(ZeroData, disk_type)
        w2 == write_root_block(w1.data, disk_type, disk_name, now)
        w3 == write_bitmap_blocks(w2.data)
    IN  IF w2.res # Ok THEN [res |-> w2.res, data |-> w2.data, bitmap |-> bm]
        ELSE [res |-> w3.res, data |-> w3.data, bitmap |-> bm]

read_disk_name(d) ==
    LET root_block == read_sector(d, ROOT_BLOCK)
        name_len == At(root_block, ADF_SECTOR_SIZE - 80)
    IN  IF ADF_SECTOR_SIZE - 79 + name_len > ADF_SECTOR_SIZE THEN [res |-> Panic, name |-> <<>>]
        ELSE [res |-> Ok,
              name |-> from_utf8_lossy(Slice(root_block, ADF_SECTOR_SIZE - 79, ADF_SECTOR_SIZE - 79 + name_len))]

\* DiskInfo: the fields that are read from the image
information(d) ==
    LET root_block == read_sector(d, ROOT_BLOCK)
        n == read_disk_name(d)
    IN  [res |-> n.res,
         filesystem |-> IF At(root_block, 3) % 2 = 1 THEN "FFS" ELSE "OFS",
         disk_name |-> n.name,
         creation_date |-> Word(root_block, 16),
         hash_table_size |-> Word(root_block, 12),
         first_reserved_block |-> Word(root_block, 128),
         last_reserved_block |-> Word(root_block, 132)]

(***************************************************************************)
(* Directory operations.                                                   *)
(***************************************************************************)
Slash == 47

\* path.rfind('/'), 1-based; 0 when there is none
RECURSIVE rfind(_, _)
rfind(path, k) == IF k = 0 \/ path[k] = Slash THEN k ELSE rfind(path, k - 1)

split_path(path) ==
    LET index == rfind(path, Len(path))
    IN  IF index # 0 THEN <<Take(path, index - 1), Drop(path, index)>> ELSE <<(<<>>), path>>

\* path.split('/').filter(|&c| !c.is_empty()), as a sequence of names
RECURSIVE Components(_, _, _)
Components(path, k, cur) ==
    IF k > Len(path) THEN (IF cur = <<>> THEN <<>> ELSE <<cur>>)
    ELSE IF path[k] = Slash
    THEN (IF cur = <<>> THEN <<>> ELSE <<cur>>) \o Components(path, k + 1, <<>>)
    ELSE Components(path, k + 1, Append(cur, path[k]))

Found(block) == [res |-> Ok, block |-> block]
NotFoundIn(msg) == [res |-> Results("NotFound", msg), block |-> -1]
Crash == [res |-> Panic, block |-> -1]

\* the scan of find_file_header_block from the k-th non-zero entry on (the
\* message of its NotFound error also quotes file_name)
RECURSIVE FindEntry(_, _, _, _)
FindEntry(d, es, file_name, k) ==
    IF k > Len(es) THEN NotFoundIn("File header block not found")
    ELSE LET h == read_file_header(d, es[k])
         IN  IF h.res # Ok THEN Crash
             ELSE IF h.info.name = file_name THEN Found(es[k])
             ELSE FindEntry(d, es, file_name, k + 1)

find_file_header_block(d, dir_block, file_name) ==
    IF ~InRange(dir_block) THEN Crash
    ELSE FindEntry(d, Entries(read_sector(d, dir_block)), file_name, 1)

\* is_directory without the look at the block type
is_directory_unchecked(d, block) == TRUE

is_directory(d, block) == At(read_sector(d, block), BLOCK_TYPE_OFFSET) = BLOCK_TYPE_DIRECTORY

\* the loop of find_directory_block from the k-th component on
RECURSIVE Walk(_, _, _, _)
Walk(d, comps, k, current_block) ==
    IF k > Len(comps) THEN Found(current_block)
    ELSE LET f == find_file_header_block(d, current_block, comps[k])
         IN  IF f.res # Ok THEN f
             ELSE IF ~is_directory(d, f.block) THEN NotFoundIn("Not a directory")
             ELSE Walk(d, comps, k + 1, f.block)

find_directory_block(d, path) == Walk(d, Components(path, 1, <<>>), 1, ROOT_BLOCK)

\* the first min(len, MAX_NAME_LENGTH) bytes of a name, stored with their count
PutName(blk, name) ==
    LET name_len == Min(Len(name), MAX_NAME_LENGTH)
    IN  copy_from_slice(SetByte(blk, FILE_NAME_LEN_OFFSET, name_len), FILE_NAME_OFFSET, Take(name, name_len))

initialize_directory(d, new_block, parent_block, name) ==
    LET d0 == SetByte(ZeroBlock, BLOCK_TYPE_OFFSET, BLOCK_TYPE_DIRECTORY)
        d1 == copy_from_slice(d0, DIR_PARENT_OFFSET, to_be_bytes(parent_block))
    IN  write_block(d, new_block, PutName(d1, name))

update_directory_name(d, dir_block, new_name) ==
    IF ~InRange(dir_block) THEN [res |-> Panic, data |-> d]
    ELSE write_block(d, dir_block, PutName(read_sector(d, dir_block), new_name))

\* is_directory_empty without the look at the directory's entries
is_directory_empty_unchecked(d, dir_block) ==
    IF ~InRange(dir_block) THEN [res |-> Panic, empty |-> FALSE]
    ELSE [res |-> Ok, empty |-> TRUE]

\* list_directory(dir_block).next().is_none(): the header of the first
\* non-zero entry is read, the others are not
is_directory_empty(d, dir_block) ==
    IF ~InRange(dir_block) THEN [res |-> Panic, empty |-> FALSE]
    ELSE LET es == Entries(read_sector(d, dir_block))
         IN  IF Len(es) = 0 THEN [res |-> Ok, empty |-> TRUE]
             ELSE [res |-> read_file_header(d, es[1]).res, empty |-> FALSE]

\* the hash table slots of a directory block that are zero, in scan order
FreeSlots(block_data) ==
    SelectSeq(HashSlots, LAMBDA i : from_be_bytes(block_data, i * 4) = 0)

add_entry_to_directory(d, dir_block, entry_block, name) ==
    IF ~InRange(dir_block) THEN [res |-> Panic, data |-> d]
    ELSE LET dir_data == read_sector(d, dir_block)
             free == FreeSlots(dir_data)
         IN  IF Len(free) = 0 THEN [res |-> Results("Other", "Directory is full"), data |-> d]
             ELSE write_block(d, dir_block, copy_from_slice(dir_data, free[1] * 4, to_be_bytes(entry_block)))

\* the name stored in the block of a directory entry, as the scans of
\* remove_entry_from_directory and update_entry_in_directory read it
EntryName(d, entry_block) ==
    IF ~InRange(entry_block) THEN [res |-> Panic, name |-> <<>>]
    ELSE LET entry_data == read_sector(d, entry_block)
             entry_name_len == At(entry_data, FILE_NAME_LEN_OFFSET)
         IN  IF FILE_NAME_OFFSET + entry_name_len > ADF_SECTOR_SIZE THEN [res |-> Panic, name |-> <<>>]
             ELSE [res |-> Ok,
                   name |-> from_utf8_lossy(Slice(entry_data, FILE_NAME_OFFSET, FILE_NAME_OFFSET + entry_name_len))]

\* the first used slot, from the k-th one on, whose entry has the name:
\* [res, slot], slot = -1 when there is none
RECURSIVE FindSlot(_, _, _, _, _)
FindSlot(d, dir_data, slots, name, k) ==
    IF k > Len(slots) THEN [res |-> Results("NotFound", "Entry not found"), slot |-> -1]
    ELSE LET n == EntryName(d, from_be_bytes(dir_data, slots[k] * 4))
         IN  IF n.res # Ok THEN [res |-> Panic, slot |-> -1]
             ELSE IF n.name = name THEN [res |-> Ok, slot |-> slots[k]]
             ELSE FindSlot(d, dir_data, slots, name, k + 1)

remove_entry_from_directory(d, dir_block, name) ==
    IF ~InRange(dir_block) THEN [res |-> Panic, data |-> d]
    ELSE LET dir_data == read_sector(d, dir_block)
             f == FindSlot(d, dir_data, UsedSlots(dir_data), name, 1)
         IN  IF f.res # Ok THEN [res |-> f.res, data |-> d]
             ELSE write_block(d, dir_block, copy_from_slice(dir_data, f.slot * 4, to_be_bytes(0)))

update_entry_in_directory(d, dir_block, old_name, new_name) ==
    IF ~InRange(dir_block) THEN [res |-> Panic, data |-> d]
    ELSE LET dir_data == read_sector(d, dir_block)
             f == FindSlot(d, dir_data, UsedSlots(dir_data), old_name, 1)
             entry_block == from_be_bytes(dir_data, f.slot * 4)
         IN  IF f.res # Ok THEN [res |-> f.res, data |-> d]
             ELSE write_block(d, entry_block, PutName(read_sector(d, entry_block), new_name))

\* the result of a directory operation: the image it leaves and the block
\* it was about (-1 when it did not get to one)
DirResult(res, d, bm, block) == [res |-> res, data |-> d, bitmap |-> bm, block |-> block]

create_directory(d, bm, path) ==
    LET parent_path == split_path(path)[1]
        new_dir_name == split_path(path)[2]
        parent == find_directory_block(d, parent_path)
        a == allocate_block(bm)
        i == initialize_directory(d, a.block, parent.block, new_dir_name)
        e == add_entry_to_directory(i.data, parent.block, a.block, new_dir_name)
    IN  IF parent.res # Ok THEN DirResult(parent.res, d, bm, -1)
        ELSE IF a.res # Ok THEN DirResult(a.res, d, bm, -1)
        ELSE IF i.res # Ok THEN DirResult(i.res, i.data, a.bitmap, a.block)
        ELSE DirResult(e.res, e.data, a.bitmap, a.block)

delete_directory(d, bm, path) ==
    LET parent_path == split_path(path)[1]
        dir_name == split_path(path)[2]
        parent == find_directory_block(d, parent_path)
        dir == find_file_header_block(d, parent.block, dir_name)
        empty == is_directory_empty(d, dir.block)
        r == remove_entry_from_directory(d, parent.block, dir_name)
        freed == set_block_free(bm, dir.block)
        u == update_bitmap_blocks(r.data, freed)
    IN  IF parent.res # Ok THEN DirResult(parent.res, d, bm, -1)
        ELSE IF dir.res # Ok THEN DirResult(dir.res, d, bm, -1)
        ELSE IF empty.res # Ok THEN DirResult(empty.res, d, bm, dir.block)
        ELSE IF ~empty.empty THEN DirResult(Results("Other", "Directory is not empty"), d, bm, dir.block)
        ELSE IF r.res # Ok THEN DirResult(r.res, r.data, bm, dir.block)
        ELSE DirResult(u.res, u.data, freed, dir.block)

rename_directory(d, bm, old_path, new_name) ==
    LET parent_path == split_path(old_path)[1]
        old_name == split_path(old_path)[2]
        parent == find_directory_block(d, parent_path)
        dir == find_file_header_block(d, parent.block, old_name)
        n == update_directory_name(d, dir.block, new_name)
        u == update_entry_in_directory(n.data, parent.block, old_name, new_name)
    IN  IF parent.res # Ok THEN DirResult(parent.res, d, bm, -1)
        ELSE IF dir.res # Ok THEN DirResult(dir.res, d, bm, -1)
        ELSE IF n.res # Ok THEN DirResult(n.res, n.data, bm, dir.block)
        ELSE DirResult(u.res, u.data, bm, dir.block)

(***************************************************************************)
(* Reading files.                                                          *)
(***************************************************************************)
\* the result of reading a file: the bytes read and the block they belong to
FileResult(res, contents, block) == [res |-> res, contents |-> contents, block |-> block]

\* the while loops of read_file_contents: data blocks carry their payload
\* from byte header_size on, and the next block is the word at byte 0
RECURSIVE ReadChain(_, _, _, _, _)
ReadChain(d, current_block, file_size, contents, header_size) ==
    IF current_block = 0 \/ Len(contents) >= file_size THEN FileResult(Ok, contents, current_block)
    ELSE IF ~InRange(current_block) THEN FileResult(Panic, contents, current_block)
    ELSE LET data_block == read_sector(d, current_block)
             data_size == Min(ADF_SECTOR_SIZE - header_size, file_size - Len(contents))
         IN  ReadChain(d, from_be_bytes(data_block, 0), file_size,
                       contents \o Slice(data_block, header_size, header_size + data_size), header_size)

read_file_contents(d, block) ==
    IF ~InRange(block) THEN FileResult(Panic, <<>>, block)
    ELSE
    LET block_data == read_sector(d, block)
        file_size == from_be_bytes(block_data, 4)
        current_block == from_be_bytes(block_data, 16)
    IN  CASE At(block_data, 0) = 2 ->
               LET r == ReadChain(d, current_block, file_size, <<>>, 24)
               IN  IF r.res = Ok /\ Len(r.contents) # file_size
                   THEN FileResult(Results("UnexpectedEof", "File size mismatch"), <<>>, block)
                   ELSE FileResult(r.res, r.contents, block)
          [] At(block_data, 0) = 0 ->
               LET r == ReadChain(d, current_block, file_size, Slice(block_data, 24, ADF_SECTOR_SIZE), 0)
               IN  FileResult(r.res, r.contents, block)
          [] OTHER -> FileResult(Results("InvalidData", "Unexpected block type"), <<>>, block)

\* the first entry of a listing with the given name, 0 when there is none
RECURSIVE FirstNamed(_, _, _)
FirstNamed(list, name, k) ==
    IF k > Len(list) THEN 0
    ELSE IF list[k].name = name THEN k
    ELSE FirstNamed(list, name, k + 1)

\* ExtractedFile: contents and header_block (name, size and is_ascii follow
\* from them and the FileInfo)
extract_file(d, file_name) ==
    LET root_files == list_root_directory(d)
        k == FirstNamed(root_files.list, file_name, 1)
        file_header_block == find_file_header_block(d, ROOT_BLOCK, file_name)
    IN  IF root_files.res # Ok THEN FileResult(root_files.res, <<>>, -1)
        ELSE IF k = 0 THEN FileResult(Results("NotFound", "File not found"), <<>>, -1)
        ELSE IF root_files.list[k].is_dir
        THEN FileResult(Results("InvalidInput", "Cannot extract a directory"), <<>>, -1)
        ELSE IF file_header_block.res # Ok THEN FileResult(file_header_block.res, <<>>, -1)
        ELSE read_file_contents(d, file_header_block.block)

(***************************************************************************)
(* dms.rs: DMSReader over a byte stream.  A reader is the stream, the      *)
(* position of its cursor, the QUICK ring text and quick_text_loc.         *)
(***************************************************************************)
DMS_HEADER_SIZE_BYTES == 56
DMS_TRACK_HEADER_SIZE_BYTES == 20
QUICK_UNPACK_SIZE_BYTES == 11360

UnexpectedEof(msg) == Results("UnexpectedEof", msg)

\* reader.read_exact of n bytes at the cursor; a stream that ends before
\* is read to its end
read_exact(stream, pos, n) ==
    IF pos + n <= Len(stream)
    THEN [res |-> Ok, bytes |-> SubSeq(stream, pos + 1, pos + n), pos |-> pos + n]
    ELSE [res |-> UnexpectedEof("failed to fill whole buffer"), bytes |-> <<>>, pos |-> Len(stream)]

\* u16::from_be_bytes
from_be_bytes16(bytes, k) == bytes[k] * 256 + bytes[k + 1]

\* the signature, then the header type and the 48 bytes of the other fields
read_header(stream) ==
    LET signature == read_exact(stream, 0, 4)
        fields == read_exact(stream, 4, DMS_HEADER_SIZE_BYTES - 4)
    IN  IF signature.res # Ok THEN [res |-> signature.res, header |-> <<>>, pos |-> signature.pos]
        ELSE IF signature.bytes # <<68, 77, 83, 33>>
        THEN [res |-> Results("InvalidData", "Invalid DMS signature"), header |-> <<>>, pos |-> signature.pos]
        ELSE [res |-> fields.res, header |-> signature.bytes \o fields.bytes, pos |-> fields.pos]

\* the value of a reader that was not created
NoReader == [open |-> FALSE, stream |-> <<>>, pos |-> 0, header |-> <<>>, quick_text_loc |-> 0, text |-> ZeroBlock]

\* DMSReader::new
DMSReader_new(stream) ==
    LET h == read_header(stream)
    IN  IF h.res # Ok THEN [res |-> h.res, reader |-> NoReader]
        ELSE [res |-> Ok,
              reader |-> [open |-> TRUE, stream |-> stream, pos |-> h.pos, header |-> h.header,
                          quick_text_loc |-> 0, text |-> ZeroBlock]]

\* header_id, then the 18 bytes of the other fields, read one after the
\* other: a stream that ends inside them is read to its end
read_track_header(stream, pos) ==
    LET header_id == read_exact(stream, pos, 2)
        fields == read_exact(stream, pos + 2, DMS_TRACK_HEADER_SIZE_BYTES - 2)
        none == [pack_length |-> 0, unpack_length |-> 0, packing_mode |-> 0]
    IN  IF header_id.res # Ok THEN [res |-> header_id.res, pos |-> header_id.pos, header |-> none]
        ELSE IF header_id.bytes # <<84, 82>>
        THEN [res |-> Results("InvalidData", "Invalid track header ID"), pos |-> header_id.pos, header |-> none]
        ELSE IF fields.res # Ok THEN [res |-> fields.res, pos |-> fields.pos, header |-> none]
        ELSE [res |-> Ok, pos |-> fields.pos,
              header |-> [pack_length |-> from_be_bytes16(fields.bytes, 5),
                          unpack_length |-> from_be_bytes16(fields.bytes, 9),
                          packing_mode |-> fields.bytes[12]]]

\* the loop of unpack_rle from input[i] on (i counts from 0)
RECURSIVE RleLoop(_, _, _)
RleLoop(input, i, output) ==
    LET eof == [res |-> UnexpectedEof("Unexpected end of input"), output |-> <<>>]
    IN  IF i >= Len(input) THEN [res |-> Ok, output |-> output]
        ELSE IF input[i + 1] # 144 THEN RleLoop(input, i + 1, Append(output, input[i + 1]))
        ELSE IF i + 1 >= Len(input) THEN eof
        ELSE IF input[i + 2] = 0 THEN RleLoop(input, i + 2, Append(output, input[i + 1]))
        ELSE IF i + 2 >= Len(input) THEN eof
        ELSE IF input[i + 2] = 255
        THEN (IF i + 3 + 1 >= Len(input) THEN eof
              ELSE RleLoop(input, i + 5, output \o Fill(input[i + 3], from_be_bytes16(input, i + 4))))
        ELSE RleLoop(input, i + 3, output \o Fill(input[i + 3], input[i + 2]))

\* a decoder that takes the count 0xFF as 255 repeats, without the two
\* bytes of a longer count
RECURSIVE RleLoopShort(_, _, _)
RleLoopShort(input, i, output) ==
    LET eof == [res |-> UnexpectedEof("Unexpected end of input"), output |-> <<>>]
    IN  IF i >= Len(input) THEN [res |-> Ok, output |-> output]
        ELSE IF input[i + 1] # 144 THEN RleLoopShort(input, i + 1, Append(output, input[i + 1]))
        ELSE IF i + 1 >= Len(input) THEN eof
        ELSE IF input[i + 2] = 0 THEN RleLoopShort(input, i + 2, Append(output, input[i + 1]))
        ELSE IF i + 2 >= Len(input) THEN eof
        ELSE RleLoopShort(input, i + 3, output \o Fill(input[i + 3], input[i + 2]))

unpack_rle_short_count(input) == RleLoopShort(input, 0, <<>>)

unpack_rle(input) == RleLoop(input, 0, <<>>)

\* BitReader::new: bit_buffer is kept as its 4 big-endian bytes
BitReader_new(input) ==
    [pos |-> 4,
     bit_buffer |-> IF Len(input) >= 4 THEN SubSeq(input, 1, 4) ELSE <<0, 0, 0, 0>>,
     bit_count |-> 32]

\* BitReader::ensure_bits
RECURSIVE ensure_bits(_, _, _)
ensure_bits(br, input, n) ==
    IF br.bit_count < n /\ br.pos < Len(input)
    THEN ensure_bits([pos |-> br.pos + 1,
                      bit_buffer |-> <<br.bit_buffer[2], br.bit_buffer[3], br.bit_buffer[4], input[br.pos + 1]>>,
                      bit_count |-> br.bit_count + 8], input, n)
    ELSE br

\* 2^n for n < 16
Pow2(n) == CASE n = 0 -> 1 [] n = 1 -> 2 [] n = 2 -> 4 [] n = 3 -> 8 [] n = 4 -> 16 [] n = 5 -> 32
             [] n = 6 -> 64 [] n = 7 -> 128 [] n = 8 -> 256 [] n = 9 -> 512 [] n = 10 -> 1024
             [] n = 11 -> 2048 [] n = 12 -> 4096 [] n = 13 -> 8192 [] n = 14 -> 16384 [] n = 15 -> 32768

\* BitReader::get_bits, n <= 8: (bit_buffer >> shift) & mask lies in the two
\* bytes of bit_buffer from the one that holds bit `shift` on
get_bits(br, input, n) ==
    LET e == ensure_bits(br, input, n)
        shift == e.bit_count - n
        q == shift \div 8
        lo == e.bit_buffer[4 - q]
        hi == IF q < 3 THEN e.bit_buffer[3 - q] ELSE 0
    IN  IF e.bit_count < n
        THEN [res |-> UnexpectedEof("Not enough bits in stream"), value |-> 0, br |-> e]
        ELSE [res |-> Ok, value |-> ((hi * 256 + lo) \div Pow2(shift % 8)) % Pow2(n),
              br |-> [e EXCEPT !.bit_count = shift]]

\* j times: text[quick_text_loc] = text[i], the byte is pushed and
\* quick_text_loc advances; i stays as it is
RECURSIVE QuickCopy(_, _, _)
QuickCopy(q, i, j) ==
    IF j = 0 THEN q
    ELSE QuickCopy([q EXCEPT !.text = SetByte(q.text, q.quick_text_loc, At(q.text, i)),
                             !.quick_text_loc = (q.quick_text_loc + 1) % 256,
                             !.output = Append(q.output, At(q.text, i))], i, j - 1)

\* one pass of the while loop of unpack_quick; q is output, bit_reader and
\* the reader's text and quick_text_loc, q.res the error that ended the loop
QuickStep(q, input) ==
    \* the bindings are taken one after the other, as the `?` of the code do
    CHOOSE r \in UNION {
        IF c.res # Ok THEN {[q EXCEPT !.res = c.res, !.bit_reader = c.br]}
        ELSE IF c.value # 0
        THEN {IF b.res # Ok THEN [q EXCEPT !.res = b.res, !.bit_reader = b.br]
              ELSE [q EXCEPT !.bit_reader = b.br,
                             !.text = SetByte(q.text, q.quick_text_loc, b.value),
                             !.quick_text_loc = (q.quick_text_loc + 1) % 256,
                             !.output = Append(q.output, b.value)]
              : b \in {get_bits(c.br, input, 8)}}
        ELSE UNION {
              IF j.res # Ok THEN {[q EXCEPT !.res = j.res, !.bit_reader = j.br]}
              ELSE {IF offset.res # Ok THEN [q EXCEPT !.res = offset.res, !.bit_reader = offset.br]
                    ELSE QuickCopy([q EXCEPT !.bit_reader = offset.br],
                                   (q.quick_text_loc + 512 - offset.value - 1) % 256, j.value + 2)
                    : offset \in {get_bits(j.br, input, 8)}}
              : j \in {get_bits(c.br, input, 2)}}
        : c \in {get_bits(q.bit_reader, input, 1)}} : TRUE

\* the while loop of unpack_quick, at most 2^k passes of it
RECURSIVE QuickLoop(_, _, _)
QuickLoop(q, input, k) ==
    IF q.res # Ok \/ Len(q.output) >= QUICK_UNPACK_SIZE_BYTES THEN q
    ELSE IF k = 0 THEN QuickStep(q, input)
    ELSE CHOOSE r \in {QuickLoop(h, input, k - 1) : h \in {QuickLoop(q, input, k - 1)}} : TRUE

\* a decoder that starts every track from a ring of zeros and the cursor 0
unpack_quick_per_track(text, quick_text_loc, input) ==
    LET q == QuickLoop([res |-> Ok, output |-> <<>>, bit_reader |-> BitReader_new(input),
                        text |-> ZeroBlock, quick_text_loc |-> 0], input, 14)
    IN  IF q.res # Ok THEN [res |-> q.res, output |-> <<>>, text |-> q.text, quick_text_loc |-> q.quick_text_loc]
        ELSE [res |-> Ok, output |-> q.output, text |-> q.text, quick_text_loc |-> (q.quick_text_loc + 5) % 256]

\* unpack_quick: every pass pushes at least one byte, so 2^14 passes are
\* more than the loop can make; text and quick_text_loc are left as the
\* loop changed them when it ends with an error
unpack_quick(text, quick_text_loc, input) ==
    LET q == QuickLoop([res |-> Ok, output |-> <<>>, bit_reader |-> BitReader_new(input),
                        text |-> text, quick_text_loc |-> quick_text_loc], input, 14)
    IN  IF q.res # Ok THEN [res |-> q.res, output |-> <<>>, text |-> q.text, quick_text_loc |-> q.quick_text_loc]
        ELSE [res |-> Ok, output |-> q.output, text |-> q.text, quick_text_loc |-> (q.quick_text_loc + 5) % 256]

\* DMSReader::read_track
read_track(r) ==
    LET h == read_track_header(r.stream, r.pos)
        compressed_data == read_exact(r.stream, h.pos, h.header.pack_length)
        at(pos) == [r EXCEPT !.pos = pos]
    IN  IF h.res # Ok THEN [res |-> h.res, track |-> <<>>, reader |-> at(h.pos)]
        ELSE IF compressed_data.res # Ok
        THEN [res |-> compressed_data.res, track |-> <<>>, reader |-> at(compressed_data.pos)]
        ELSE CASE h.header.packing_mode = 0 ->
                    [res |-> Ok, track |-> compressed_data.bytes, reader |-> at(compressed_data.pos)]
               [] h.header.packing_mode = 1 ->
                    LET u == unpack_rle(compressed_data.bytes)
                    IN  [res |-> u.res, track |-> u.output, reader |-> at(compressed_data.pos)]
               [] h.header.packing_mode = 2 ->
                    LET u == unpack_quick(r.text, r.quick_text_loc, compressed_data.bytes)
                    IN  [res |-> u.res, track |-> u.output,
                         reader |-> [at(compressed_data.pos) EXCEPT !.text = u.text,
                                                                    !.quick_text_loc = u.quick_text_loc]]
               [] OTHER ->
                    [res |-> Results("Unsupported", "Unsupported packing mode"), track |-> <<>>,
                     reader |-> at(compressed_data.pos)]

(***************************************************************************)
(* hunk.rs: HunkParser over a byte stream with a cursor.  A u32 is kept as *)
(* its 4 big-endian bytes; a position past the end of the stream is kept   *)
(* as the end of the stream, where every read fails alike.                 *)
(***************************************************************************)
HUNK_HEADER == 1011
HUNK_CODE == 1001
HUNK_DATA == 1002
HUNK_BSS == 1003
HUNK_RELOC32 == 1004
HUNK_DEBUG == 1009
HUNK_SYMBOL == 1008
HUNK_END == 1010
DEBUG_LINE == <<76, 73, 78, 69>>

\* Option: None, Some(x)
None == <<>>
Some(x) == <<x>>

\* a u32 as a number, a value of 2^31 or more as MaxInt
U32(w) == IF w[1] >= 128 THEN MaxInt ELSE w[1] * 16777216 + w[2] * 65536 + w[3] * 256 + w[4]
\* a < b on u32
U32Less(a, b) == \E k \in 1..4 : a[k] < b[k] /\ \A j \in 1..(k - 1) : a[j] = b[j]

Overflow == Results("Panic", "arithmetic overflow")

\* HunkParser::read_u32
read_u32(stream, pos) ==
    LET r == read_exact(stream, pos, 4)
    IN  [res |-> r.res, value |-> IF r.res = Ok THEN r.bytes ELSE <<0, 0, 0, 0>>, pos |-> r.pos]

\* count times read_u32, collected: the values, or the first error
read_u32s(stream, pos, count) ==
    IF count > (Len(stream) - pos) \div 4
    THEN [res |-> UnexpectedEof("failed to fill whole buffer"), values |-> <<>>, pos |-> Len(stream)]
    ELSE [res |-> Ok, values |-> [k \in 1..count |-> SubSeq(stream, pos + 4 * k - 3, pos + 4 * k)],
          pos |-> pos + 4 * count]

\* reader.seek(SeekFrom::Current(longs * 4))
seek_longs(stream, pos, longs) ==
    IF longs > (Len(stream) - pos) \div 4 THEN Len(stream) ELSE pos + 4 * longs

\* HunkParser::validate_hunk_header
validate_hunk_header(stream, pos) ==
    LET hunk_header == read_u32(stream, pos)
        skipped == read_u32(stream, hunk_header.pos)
    IN  IF hunk_header.res # Ok THEN [res |-> hunk_header.res, pos |-> hunk_header.pos]
        ELSE IF U32(hunk_header.value) # HUNK_HEADER
        THEN [res |-> Results("InvalidData", "Invalid HUNK_HEADER"), pos |-> hunk_header.pos]
        ELSE [res |-> skipped.res, pos |-> skipped.pos]

\* HunkParser::read_hunk_table; last_hunk - first_hunk + 1 overflows a u32
\* when the difference is 2^32 - 1: a panic where overflow is checked, 0
\* where it wraps
read_hunk_table(stream, pos, checked) ==
    LET table_size == read_u32(stream, pos)
        first_hunk == read_u32(stream, table_size.pos)
        last_hunk == read_u32(stream, first_hunk.pos)
        wraps == last_hunk.value = <<255, 255, 255, 255>> /\ first_hunk.value = <<0, 0, 0, 0>>
        hunk_count == IF wraps THEN 0
                      ELSE IF last_hunk.value[1] - first_hunk.value[1] >= 2 THEN MaxInt
                      ELSE (last_hunk.value[1] - first_hunk.value[1]) * 16777216
                           + (U32(<<0>> \o Drop(last_hunk.value, 1)) - U32(<<0>> \o Drop(first_hunk.value, 1))) + 1
        hunk_sizes == read_u32s(stream, last_hunk.pos, hunk_count)
        fail(res, p) == [res |-> res, pos |-> p, hunk_count |-> 0]
    IN  IF table_size.res # Ok THEN fail(table_size.res, table_size.pos)
        ELSE IF first_hunk.res # Ok THEN fail(first_hunk.res, first_hunk.pos)
        ELSE IF last_hunk.res # Ok THEN fail(last_hunk.res, last_hunk.pos)
        ELSE IF U32Less(last_hunk.value, first_hunk.value)
        THEN fail(Results("InvalidData", "Last hunk index is less than first hunk index"), last_hunk.pos)
        ELSE IF wraps /\ checked THEN fail(Overflow, last_hunk.pos)
        ELSE IF hunk_sizes.res # Ok THEN fail(hunk_sizes.res, hunk_sizes.pos)
        ELSE [res |-> Ok, pos |-> hunk_sizes.pos, hunk_count |-> hunk_count]

\* HunkParser::get_size_type
get_size_type(t) ==
    [size |-> ((t[1] % 16) * 16777216 + t[2] * 65536 + t[3] * 256 + t[4]) * 4,
     mem_type |-> CASE t[1] \div 16 = 4 -> "Chip" [] t[1] \div 16 = 8 -> "Fast" [] OTHER -> "Any"]

\* Hunk::default()
DefaultHunk ==
    [mem_type |-> "Any", hunk_type |-> "Code", alloc_size |-> 0, data_size |-> 0,
     code_data |-> None, reloc_32 |-> None, symbols |-> None, line_debug_info |-> None]

\* what a sub-block parser returns: the hunk as it is then and the cursor
Parsed(res, hunk, pos) == [res |-> res, hunk |-> hunk, pos |-> pos]

\* HunkParser::parse_code_or_data
parse_code_or_data(hunk_type, hunk, stream, pos) ==
    LET t == read_u32(stream, pos)
        st == get_size_type(t.value)
        code_data == read_exact(stream, t.pos, st.size)
    IN  IF t.res # Ok THEN Parsed(t.res, hunk, t.pos)
        ELSE IF code_data.res # Ok THEN Parsed(code_data.res, hunk, code_data.pos)
        ELSE Parsed(Ok, [hunk EXCEPT !.hunk_type = hunk_type, !.mem_type = st.mem_type,
                                     !.data_size = st.size, !.code_data = Some(code_data.bytes)],
                    code_data.pos)

\* parse_bss that reads the bytes of the block as parse_code_or_data does
parse_bss_with_bytes(hunk, stream, pos) ==
    LET r == parse_code_or_data("Bss", hunk, stream, pos)
    IN  Parsed(r.res, [r.hunk EXCEPT !.code_data = None], r.pos)

\* HunkParser::parse_bss
parse_bss(hunk, stream, pos) ==
    LET t == read_u32(stream, pos)
        st == get_size_type(t.value)
    IN  IF t.res # Ok THEN Parsed(t.res, hunk, t.pos)
        ELSE Parsed(Ok, [hunk EXCEPT !.hunk_type = "Bss", !.mem_type = st.mem_type, !.data_size = st.size], t.pos)

\* the loop of parse_reloc32
RECURSIVE RelocLoop(_, _, _)
RelocLoop(stream, pos, relocs) ==
    LET stop(res, p) == [res |-> res, relocs |-> relocs, pos |-> p]
        group(count, target, offsets) ==
            IF offsets.res # Ok THEN stop(offsets.res, offsets.pos)
            ELSE RelocLoop(stream, offsets.pos,
                           Append(relocs, [target |-> target.value, offsets |-> offsets.values]))
        with_target(count, target) ==
            IF target.res # Ok THEN stop(target.res, target.pos)
            ELSE group(count, target, read_u32s(stream, target.pos, U32(count.value)))
        with_count(count) ==
            IF count.res # Ok THEN stop(count.res, count.pos)
            ELSE IF U32(count.value) = 0 THEN stop(Ok, count.pos)
            ELSE with_target(count, read_u32(stream, count.pos))
    IN  with_count(read_u32(stream, pos))

\* HunkParser::parse_reloc32
parse_reloc32(hunk, stream, pos) ==
    LET r == RelocLoop(stream, pos, <<>>)
    IN  IF r.res # Ok THEN Parsed(r.res, hunk, r.pos)
        ELSE Parsed(Ok, [hunk EXCEPT !.reloc_32 = Some(r.relocs)], r.pos)

\* HunkParser::read_name: the bytes before the first zero byte, as a String
read_name(stream, pos, num_longs) ==
    IF num_longs > (Len(stream) - pos) \div 4
    THEN [res |-> UnexpectedEof("failed to fill whole buffer"), name |-> <<>>, pos |-> Len(stream)]
    ELSE LET buffer == SubSeq(stream, pos + 1, pos + 4 * num_longs)
             zeros == {k \in 1..Len(buffer) : buffer[k] = 0}
             end == IF zeros = {} THEN Len(buffer) ELSE (CHOOSE k \in zeros : \A j \in zeros : k =< j) - 1
         IN  [res |-> Ok, name |-> from_utf8_lossy(Take(buffer, end)), pos |-> pos + 4 * num_longs]

\* the loop of parse_symbols
RECURSIVE SymbolLoop(_, _, _)
SymbolLoop(stream, pos, symbols) ==
    LET stop(res, p) == [res |-> res, symbols |-> symbols, pos |-> p]
        with_offset(name, offset) ==
            IF offset.res # Ok THEN stop(offset.res, offset.pos)
            ELSE SymbolLoop(stream, offset.pos, Append(symbols, [name |-> name.name, offset |-> offset.value]))
        with_name(name) ==
            IF name.res # Ok THEN stop(name.res, name.pos)
            ELSE with_offset(name, read_u32(stream, name.pos))
        with_num_longs(num_longs) ==
            IF num_longs.res # Ok THEN stop(num_longs.res, num_longs.pos)
            ELSE IF U32(num_longs.value) = 0 THEN stop(Ok, num_longs.pos)
            ELSE with_name(read_name(stream, num_longs.pos, U32(num_longs.value)))
    IN  with_num_longs(read_u32(stream, pos))

\* a sort by offset that puts a symbol before the ones of equal offset
RECURSIVE sort_unstable_by_key(_)
sort_unstable_by_key(symbols) ==
    IF Len(symbols) <= 1 THEN symbols
    ELSE LET s == symbols[Len(symbols)]
             sorted == sort_unstable_by_key(Take(symbols, Len(symbols) - 1))
             before == SelectSeq(sorted, LAMBDA x : U32Less(x.offset, s.offset))
             after == SelectSeq(sorted, LAMBDA x : ~U32Less(x.offset, s.offset))
         IN  before \o <<s>> \o after

\* sort_by_key(|s| s.offset), a stable sort: every symbol goes after the
\* ones sorted so far whose offset is not larger
RECURSIVE sort_by_key(_)
sort_by_key(symbols) ==
    IF Len(symbols) <= 1 THEN symbols
    ELSE LET s == symbols[Len(symbols)]
             sorted == sort_by_key(Take(symbols, Len(symbols) - 1))
             before == SelectSeq(sorted, LAMBDA x : ~U32Less(s.offset, x.offset))
             after == SelectSeq(sorted, LAMBDA x : U32Less(s.offset, x.offset))
         IN  before \o <<s>> \o after

\* HunkParser::parse_symbols
parse_symbols(hunk, stream, pos) ==
    LET r == SymbolLoop(stream, pos, <<>>)
    IN  IF r.res # Ok THEN Parsed(r.res, hunk, r.pos)
        ELSE IF r.symbols # <<>> THEN Parsed(Ok, [hunk EXCEPT !.symbols = Some(sort_by_key(r.symbols))], r.pos)
        ELSE Parsed(Ok, hunk, r.pos)

\* the low 30 bits of a u32
Low30(w) == (w[1] % 64) * 16777216 + w[2] * 65536 + w[3] * 256 + w[4]

\* a + b on u32: the sum modulo 2^32 and whether it overflowed
AddU32(a, b) ==
    LET c4 == a[4] + b[4]
        c3 == a[3] + b[3] + c4 \div 256
        c2 == a[2] + b[2] + c3 \div 256
        c1 == a[1] + b[1] + c2 \div 256
    IN  [value |-> <<c1 % 256, c2 % 256, c3 % 256, c4 % 256>>, overflow |-> c1 >= 256]

\* the lines of fill_debug_info: num_lines times a line number and an offset
RECURSIVE LineLoop(_, _, _, _, _, _)
LineLoop(stream, pos, base_offset, num_lines, lines, checked) ==
    LET stop(res, p) == [res |-> res, lines |-> lines, pos |-> p]
        with_sum(line_no, offset, sum) ==
            IF sum.overflow /\ checked THEN stop(Overflow, offset.pos)
            ELSE LineLoop(stream, offset.pos, base_offset, num_lines - 1,
                          Append(lines, [line |-> U32(<<0>> \o Drop(line_no.value, 1)), offset |-> sum.value]),
                          checked)
        with_offset(line_no, offset) ==
            IF offset.res # Ok THEN stop(offset.res, offset.pos)
            ELSE with_sum(line_no, offset, AddU32(base_offset, offset.value))
        with_line_no(line_no) ==
            IF line_no.res # Ok THEN stop(line_no.res, line_no.pos)
            ELSE with_offset(line_no, read_u32(stream, line_no.pos))
    IN  IF num_lines = 0 THEN stop(Ok, pos) ELSE with_line_no(read_u32(stream, pos))

\* HunkParser::fill_debug_info; num_longs is the record of parse_debug.  A
\* num_lines beyond what the stream holds is read as far as the stream goes.
fill_debug_info(base_offset, num_longs, stream, pos, checked) ==
    LET fail(res, p) == [res |-> res, source_file |-> None, pos |-> p]
        with_lines(name, lines) ==
            IF lines.res # Ok THEN fail(lines.res, lines.pos)
            ELSE [res |-> Ok,
                  source_file |-> Some([name |-> name.name, base_offset |-> base_offset, lines |-> lines.lines]),
                  pos |-> lines.pos]
        with_num_lines(name, underflow, num_lines) ==
            IF underflow /\ checked THEN fail(Overflow, name.pos)
            ELSE with_lines(name, LineLoop(stream, name.pos, base_offset,
                                           Min(num_lines, (Len(stream) - name.pos) \div 8 + 1), <<>>, checked))
        with_name(n, name) ==
            IF name.res # Ok THEN fail(name.res, name.pos)
            ELSE IF num_longs.big THEN with_num_lines(name, FALSE, MaxInt)
            ELSE IF num_longs.low30 < n + 1 THEN with_num_lines(name, TRUE, MaxInt)
            ELSE with_num_lines(name, FALSE, (num_longs.low30 - n - 1) \div 2)
        with_num_name_longs(num_name_longs) ==
            IF num_name_longs.res # Ok THEN fail(num_name_longs.res, num_name_longs.pos)
            ELSE with_name(U32(num_name_longs.value),
                           read_name(stream, num_name_longs.pos, U32(num_name_longs.value)))
    IN  with_num_name_longs(read_u32(stream, pos))

\* HunkParser::parse_debug; num_longs = read_u32 - 2 is kept as its low 30
\* bits and whether it is 2^30 or more (then num_longs * 4 overflows)
parse_debug(hunk, stream, pos, checked) ==
    LET with_source_file(source_file) ==
            IF source_file.res # Ok THEN Parsed(source_file.res, hunk, source_file.pos)
            ELSE Parsed(Ok, [hunk EXCEPT !.line_debug_info =
                                             Some((IF @ = None THEN <<>> ELSE @[1]) \o source_file.source_file)],
                        source_file.pos)
        with_debug_tag(num_longs, base_offset, debug_tag) ==
            IF debug_tag.res # Ok THEN Parsed(debug_tag.res, hunk, debug_tag.pos)
            ELSE IF debug_tag.value # DEBUG_LINE
            THEN IF num_longs.big /\ checked THEN Parsed(Overflow, hunk, debug_tag.pos)
                 ELSE Parsed(Ok, hunk, seek_longs(stream, debug_tag.pos, num_longs.low30))
            ELSE with_source_file(fill_debug_info(base_offset.value, num_longs, stream, debug_tag.pos, checked))
        with_base_offset(num_longs, base_offset) ==
            IF base_offset.res # Ok THEN Parsed(base_offset.res, hunk, base_offset.pos)
            ELSE with_debug_tag(num_longs, base_offset, read_u32(stream, base_offset.pos))
        with_num_longs(n, underflow, minus2) ==
            IF underflow /\ checked THEN Parsed(Overflow, hunk, n.pos)
            ELSE with_base_offset([big |-> underflow \/ minus2[1] >= 64, low30 |-> Low30(minus2)],
                                  read_u32(stream, n.pos))
        with_n(n) ==
            IF n.res # Ok THEN Parsed(n.res, hunk, n.pos)
            ELSE with_num_longs(n, n.value[1] = 0 /\ U32(n.value) < 2,
                                AddU32(n.value, <<255, 255, 255, 254>>).value)
    IN  with_n(read_u32(stream, pos))

\* HunkParser::skip_hunk
skip_hunk(hunk, stream, pos) ==
    LET seek_offset == read_u32(stream, pos)
    IN  IF seek_offset.res # Ok THEN Parsed(seek_offset.res, hunk, seek_offset.pos)
        ELSE Parsed(Ok, hunk, seek_longs(stream, seek_offset.pos, U32(seek_offset.value)))

\* HunkParser::parse_hunk: sub-blocks until HUNK_END
RECURSIVE parse_hunk_loop(_, _, _, _)
parse_hunk_loop(hunk, stream, pos, checked) ==
    LET with_block(r) == IF r.res # Ok THEN r ELSE parse_hunk_loop(r.hunk, stream, r.pos, checked)
        with_type(t, p) ==
            CASE t = HUNK_CODE -> with_block(parse_code_or_data("Code", hunk, stream, p))
              [] t = HUNK_DATA -> with_block(parse_code_or_data("Data", hunk, stream, p))
              [] t = HUNK_BSS -> with_block(parse_bss(hunk, stream, p))
              [] t = HUNK_RELOC32 -> with_block(parse_reloc32(hunk, stream, p))
              [] t = HUNK_SYMBOL -> with_block(parse_symbols(hunk, stream, p))
              [] t = HUNK_DEBUG -> with_block(parse_debug(hunk, stream, p, checked))
              [] t = HUNK_END -> Parsed(Ok, hunk, p)
              [] OTHER -> with_block(skip_hunk(hunk, stream, p))
        with_hunk_type(hunk_type) ==
            IF hunk_type.res # Ok THEN Parsed(hunk_type.res, hunk, hunk_type.pos)
            ELSE with_type(U32(hunk_type.value), hunk_type.pos)
    IN  with_hunk_type(read_u32(stream, pos))

parse_hunk(stream, pos, checked) == parse_hunk_loop(DefaultHunk, stream, pos, checked)

\* the loop of parse_hunks: hunk_count times parse_hunk
RECURSIVE parse_hunks_loop(_, _, _, _, _)
parse_hunks_loop(stream, pos, hunk_count, hunks, checked) ==
    IF hunk_count = 0 THEN [res |-> Ok, hunks |-> hunks, pos |-> pos]
    ELSE LET r == parse_hunk(stream, pos, checked)
         IN  IF r.res # Ok THEN [res |-> r.res, hunks |-> <<>>, pos |-> r.pos]
             ELSE parse_hunks_loop(stream, r.pos, hunk_count - 1, Append(hunks, r.hunk), checked)

\* HunkParser::parse_hunks on a reader at the start of the stream; checked
\* tells whether the build checks arithmetic overflow.  An error returns no
\* hunk list.
parse_hunks(stream, checked) ==
    LET header == validate_hunk_header(stream, 0)
        table == read_hunk_table(stream, header.pos, checked)
    IN  IF header.res # Ok THEN [res |-> header.res, hunks |-> <<>>, pos |-> header.pos]
        ELSE IF table.res # Ok THEN [res |-> table.res, hunks |-> <<>>, pos |-> table.pos]
        ELSE parse_hunks_loop(stream, table.pos, table.hunk_count, <<>>, checked)

(***************************************************************************)
(* Inputs and bounds.                                                      *)
(***************************************************************************)
\* at most MaxOps operations that grow the image (allocations, directory
\* creations) in one behaviour of Spec and SpecDir, and at most MaxSteps
\* operations in one behaviour of SpecAlloc
MaxOps == 2
MaxSteps == 4

\* disk and directory names, as bytes: "TestDisk", a 31-byte ASCII name, and
\* a 31-byte name whose 30th and 31st byte are one two-byte character
TestDisk == <<84, 101, 115, 116, 68, 105, 115, 107>>
LongName == [i \in 1..31 |-> 64 + i]
SplitName == [i \in 1..29 |-> 97] \o <<195, 169>>

\* SystemTime::now(), seconds since the epoch
SystemTimes == <<0, 1762300800>>

\* the arguments of format: variant, name, and the time of the call
FormatArgs ==
    {<<"OFS", TestDisk, SystemTimes[2]>>, <<"FFS", TestDisk, SystemTimes[2]>>,
     <<"FFS", LongName, SystemTimes[1]>>,
     <<"OFS", SplitName, SystemTimes[2]>>}

\* sector payloads: [42; 512] (tests.rs), one byte short, one byte long
Payloads == {Fill(42, ADF_SECTOR_SIZE), Fill(42, ADF_SECTOR_SIZE - 1), Fill(42, ADF_SECTOR_SIZE + 1)}

\* sector numbers handed to read_sector and write_sector
SectorArgs == {10, ROOT_BLOCK, ADF_NUM_SECTORS}

\* the image files from_bytes loads: all zero, and one with a root block of 42s
Files == {ZeroData, Store(ZeroData, ROOT_BLOCK, Block(Fill(42, ADF_SECTOR_SIZE)))}

\* in-memory bitmaps of images: the one of ADF::new, the literal
\* vec![false; ADF_NUM_SECTORS] of tests.rs and main.rs, the one of
\* from_bytes, and the ones ADF::new and from_bytes have after allocate_block
\* has handed out the sectors 2..878 and 2..1759
NewBitmap == AllFree(ADF_NUM_SECTORS)
LiteralBitmap == AllUsed(ADF_NUM_SECTORS)
LoadedBitmap == AllFree(ADF_TRACK_SIZE * ADF_NUM_TRACKS)
LowUsedBitmap == [len |-> ADF_NUM_SECTORS, edges |-> {0, 2, ROOT_BLOCK - 1}]
LoadedFullBitmap == [len |-> ADF_TRACK_SIZE * ADF_NUM_TRACKS, edges |-> {0, 2, ADF_NUM_SECTORS}]

\* what the last operation was, its arguments and its result
Last(op, res) ==
    [op |-> op, res |-> res, prev |-> "", sector |-> -1, bytes |-> <<>>,
     disk_type |-> "", name |-> <<>>, path |-> <<>>, listed |-> <<>>, count |-> 0, input |-> <<>>]

(***************************************************************************)
(* Construction.                                                           *)
(***************************************************************************)
\* ADF::new(ADF_NUM_SECTORS, ADF_SECTOR_SIZE)
new == [data |-> ZeroData, bitmap |-> AllFree(ADF_NUM_SECTORS)]

\* ADF::from_bytes of an image of the right size
from_bytes(bytes) == [data |-> bytes, bitmap |-> AllFree(ADF_TRACK_SIZE * ADF_NUM_TRACKS)]

\* an image as format(FFS, "TestDisk") leaves it (create_test_adf)
Formatted(bm) == [data |-> format(ZeroData, bm, "FFS", TestDisk, SystemTimes[2]).data, bitmap |-> bm]

Constructed ==
    {new, [data |-> ZeroData, bitmap |-> LiteralBitmap], [data |-> ZeroData, bitmap |-> LowUsedBitmap]}
    \cup {from_bytes(f) : f \in Files}

Init ==
    /\ \E adf \in Constructed : data = adf.data /\ bitmap = adf.bitmap
    /\ file = ZeroData
    /\ dms = NoReader
    /\ last = Last("new", Ok)
    /\ nops = 0

(***************************************************************************)
(* Operations of the block device, format and the allocator.               *)
(***************************************************************************)
Format(disk_type, disk_name, now) ==
    \E r \in {format(data, bitmap, disk_type, disk_name, now)} :
        /\ data' = r.data
        /\ bitmap' = r.bitmap
        /\ last' = [Last("format", r.res) EXCEPT !.prev = last.op, !.sector = ROOT_BLOCK,
                                                 !.disk_type = disk_type, !.name = disk_name]
        /\ UNCHANGED <<file, nops, dms>>

WriteSector(sector, bytes) ==
    \E r \in {write_sector(data, sector, bytes)} :
        /\ data' = r.data
        /\ last' = [Last("write_sector", r.res) EXCEPT !.prev = last.op, !.sector = sector, !.bytes = bytes]
        /\ UNCHANGED <<bitmap, file, nops, dms>>

\* read_sector returns a slice: the call either yields the bytes or panics
ReadSector(sector) ==
    /\ last' = [Last("read_sector", IF InRange(sector) THEN Ok ELSE Panic)
                   EXCEPT !.prev = last.op, !.sector = sector,
                          !.bytes = IF InRange(sector) THEN Bytes(read_sector(data, sector), ADF_SECTOR_SIZE)
                                    ELSE <<>>]
    /\ UNCHANGED <<data, bitmap, file, nops, dms>>

Allocate ==
    \E r \in {allocate_block(bitmap)} :
        /\ bitmap' = r.bitmap
        /\ last' = [Last("allocate_block", r.res) EXCEPT !.prev = last.op, !.sector = r.block]
        /\ UNCHANGED <<data, file, dms>>

AllocateBlock == nops < MaxOps /\ nops' = nops + 1 /\ Allocate

Next ==
    \/ \E a \in FormatArgs : Format(a[1], a[2], a[3])
    \/ \E i \in SectorArgs, d \in Payloads : WriteSector(i, d)
    \/ \E i \in SectorArgs : ReadSector(i)
    \/ AllocateBlock

Spec == Init /\ [][Next]_vars

(***************************************************************************)
(* The allocator and persistence: SpecAlloc.  The image file is `file`.    *)
(***************************************************************************)
\* sector numbers handed to set_block_free
FreeArgs == {3, 5}

InitAlloc ==
    /\ \E bm \in {NewBitmap, LiteralBitmap, LoadedBitmap, LowUsedBitmap, LoadedFullBitmap} :
          data = Formatted(bm).data /\ bitmap = bm
    /\ file = ZeroData
    /\ dms = NoReader
    /\ last = [Last("format", Ok) EXCEPT !.sector = ROOT_BLOCK, !.disk_type = "FFS", !.name = TestDisk]
    /\ nops = 0

Step == nops < MaxSteps /\ nops' = nops + 1

AllocStep == Step /\ Allocate

SetBlockFree(i) ==
    /\ Step
    /\ bitmap' = set_block_free(bitmap, i)
    /\ last' = [Last("set_block_free", Ok) EXCEPT !.prev = last.op, !.sector = i]
    /\ UNCHANGED <<data, file, dms>>

UpdateBitmapBlocks ==
    /\ Step
    /\ \E r \in {update_bitmap_blocks(data, bitmap)} :
        /\ data' = r.data
        /\ last' = [Last("update_bitmap_blocks", r.res) EXCEPT !.prev = last.op, !.sector = ROOT_BLOCK + 1]
        /\ UNCHANGED <<bitmap, file, dms>>

\* file.write_all(&self.data)
WriteToFile ==
    /\ Step
    /\ file' = data
    /\ last' = [Last("write_to_file", Ok) EXCEPT !.prev = last.op]
    /\ UNCHANGED <<data, bitmap, dms>>

\* from_file: read_exact of the whole image, then from_bytes
FromFile ==
    /\ Step
    /\ \E adf \in {from_bytes(file)} :
        /\ data' = adf.data
        /\ bitmap' = adf.bitmap
        /\ last' = [Last("from_file", Ok) EXCEPT !.prev = last.op]
        /\ UNCHANGED <<file, dms>>

\* numbers of sectors asked of find_contiguous_free_blocks
CountArgs == {1, 2, 3}

FindContiguousFreeBlocks(count) ==
    /\ \E r \in {find_contiguous_free_blocks(bitmap, count)} :
        last' = [Last("find_contiguous_free_blocks", r.res) EXCEPT !.prev = last.op, !.sector = r.start,
                                                                   !.count = count]
    /\ UNCHANGED <<data, bitmap, file, nops, dms>>

NextAlloc ==
    \/ AllocStep
    \/ \E n \in CountArgs : FindContiguousFreeBlocks(n)
    \/ \E i \in FreeArgs : SetBlockFree(i)
    \/ UpdateBitmapBlocks
    \/ WriteToFile
    \/ FromFile

SpecAlloc == InitAlloc /\ [][NextAlloc]_vars

(***************************************************************************)
(* Directories: SpecDir, on a formatted image.                             *)
(***************************************************************************)
\* paths "A", "B", "A/B" and new names "B", "C"
DirPaths == {<<65>>, <<66>>, <<65, Slash, 66>>}
NewNames == {<<66>>, <<67>>}

\* what the directory the parent part of a path resolves to lists (nothing
\* when it does not resolve)
ParentListing(d, path) ==
    LET parent == find_directory_block(d, split_path(path)[1])
    IN  IF parent.res = Ok THEN list_directory(d, parent.block).list ELSE <<>>

InitDir ==
    /\ \E bm \in {NewBitmap, LowUsedBitmap} :
          data = Formatted(bm).data /\ bitmap = bm
    /\ file = ZeroData
    /\ dms = NoReader
    /\ last = [Last("format", Ok) EXCEPT !.sector = ROOT_BLOCK, !.disk_type = "FFS", !.name = TestDisk]
    /\ nops = 0

CreateDirectory(path) ==
    /\ nops < MaxOps
    /\ nops' = nops + 1
    /\ \E r \in {create_directory(data, bitmap, path)} :
        /\ data' = r.data
        /\ bitmap' = r.bitmap
        /\ last' = [Last("create_directory", r.res) EXCEPT !.prev = last.op, !.sector = r.block, !.path = path,
                                  !.listed = ParentListing(data, path)]
        /\ UNCHANGED <<file, dms>>

DeleteDirectory(path) ==
    \E r \in {delete_directory(data, bitmap, path)} :
        /\ data' = r.data
        /\ bitmap' = r.bitmap
        /\ last' = [Last("delete_directory", r.res) EXCEPT !.prev = last.op, !.sector = r.block, !.path = path,
                                  !.listed = ParentListing(data, path)]
        /\ UNCHANGED <<file, nops, dms>>

RenameDirectory(old_path, new_name) ==
    \E r \in {rename_directory(data, bitmap, old_path, new_name)} :
        /\ data' = r.data
        /\ bitmap' = r.bitmap
        /\ last' = [Last("rename_directory", r.res) EXCEPT !.prev = last.op, !.sector = r.block,
                                                           !.path = old_path, !.name = new_name,
                                                           !.listed = ParentListing(data, old_path)]
        /\ UNCHANGED <<file, nops, dms>>

NextDir ==
    \/ \E p \in DirPaths : CreateDirectory(p)
    \/ \E p \in DirPaths : DeleteDirectory(p)
    \/ \E p \in DirPaths, n \in NewNames : RenameDirectory(p, n)

SpecDir == InitDir /\ [][NextDir]_vars

(***************************************************************************)
(* SpecFile: an image whose root lists one file "A" (header at sector 2,   *)
(* data blocks at sectors 3 and 4), reads of it and changes to its blocks. *)
(***************************************************************************)
\* the first four bytes of a file header: the long 2 of the data model, or
\* the byte BLOCK_TYPE_DIRECTORY that read_file_contents matches first
HeaderTypes == {<<0, 0, 0, 2>>, <<BLOCK_TYPE_DIRECTORY, 0, 0, 0>>}

\* file sizes: empty, within one data block, two data blocks
FileSizes == {0, 3, OFS.payload_size + 2}

\* a file header as read_file_header and read_file_contents read it
FileHeaderBlock(type, name, size, first) ==
    LET b0 == copy_from_slice(ZeroBlock, 0, type)
        b1 == copy_from_slice(b0, FILE_SIZE_OFFSET, to_be_bytes(size))
        b2 == copy_from_slice(b1, 16, to_be_bytes(first))
    IN  PutName(b2, name)

\* an OFS data block of the data model
DataBlock(header_key, seqnum, data_size, next, byte) ==
    LET b0 == copy_from_slice(ZeroBlock, OFS.type, to_be_bytes(OFS.T_DATA))
        b1 == copy_from_slice(b0, OFS.header_key, to_be_bytes(header_key))
        b2 == copy_from_slice(b1, OFS.seqnum, to_be_bytes(seqnum))
        b3 == copy_from_slice(b2, OFS.data_size, to_be_bytes(data_size))
        b4 == copy_from_slice(b3, OFS.next, to_be_bytes(next))
    IN  copy_from_slice(b4, OFS.payload, Fill(byte, data_size))

\* the image after new, format, three allocate_block (sectors 2, 3, 4) and
\* write_sector of the file header, of its data blocks and of the root
\* block with the header linked into its last hash table slot
FileImage(type, size) ==
    LET f == Formatted(NewBitmap).data
        n1 == Min(size, OFS.payload_size)
        n2 == size - n1
        written == {2, ROOT_BLOCK} \cup (IF n1 = 0 THEN {} ELSE {3}) \cup (IF n2 = 0 THEN {} ELSE {4})
    IN  [data |-> [s \in DOMAIN f \cup written |->
                      CASE s = 2 -> FileHeaderBlock(type, <<65>>, size, IF size = 0 THEN 0 ELSE 3)
                        [] s = 3 -> DataBlock(2, 1, n1, IF n2 = 0 THEN 0 ELSE 4, 65)
                        [] s = 4 -> DataBlock(2, 2, n2, 0, 66)
                        [] s = ROOT_BLOCK ->
                             copy_from_slice(f[ROOT_BLOCK], DIR_ENTRY_END_INDEX * 4, to_be_bytes(2))
                        [] OTHER -> f[s]],
         bitmap |-> allocate_block(allocate_block(allocate_block(NewBitmap).bitmap).bitmap).bitmap]

\* one-byte changes to the file's blocks: <<sector, offset, value>>
Patches ==
    {<<2, 0, 0>>, <<2, 0, 2>>, <<2, 7, 1>>,
     <<3, 3, 0>>, <<3, 7, 1>>, <<3, 11, 2>>, <<3, 14, 2>>, <<3, 19, 0>>, <<3, 19, 4>>}

ReadArgs == {2, 3, ROOT_BLOCK, ADF_NUM_SECTORS}

InitFile ==
    /\ \E type \in HeaderTypes, size \in FileSizes :
          \E adf \in {FileImage(type, size)} : data = adf.data /\ bitmap = adf.bitmap
    /\ file = ZeroData
    /\ dms = NoReader
    /\ last = Last("write_sector", Ok)
    /\ nops = 0

\* read_sector, one byte changed, write_sector
PatchSector(sector, off, value) ==
    /\ nops < MaxOps
    /\ nops' = nops + 1
    /\ \E r \in {write_block(data, sector, SetByte(read_sector(data, sector), off, value))} :
        /\ data' = r.data
        /\ last' = [Last("write_sector", r.res) EXCEPT !.prev = last.op, !.sector = sector]
        /\ UNCHANGED <<bitmap, file, dms>>

ReadFileContents(block) ==
    /\ \E r \in {read_file_contents(data, block)} :
        last' = [Last("read_file_contents", r.res) EXCEPT !.prev = last.op, !.sector = block,
                                                          !.bytes = r.contents]
    /\ UNCHANGED <<data, bitmap, file, nops, dms>>

ExtractFile(file_name) ==
    /\ \E r \in {extract_file(data, file_name)} :
        last' = [Last("extract_file", r.res) EXCEPT !.prev = last.op, !.sector = r.block,
                                                    !.name = file_name, !.bytes = r.contents]
    /\ UNCHANGED <<data, bitmap, file, nops, dms>>

NextFile ==
    \/ \E p \in Patches : PatchSector(p[1], p[2], p[3])
    \/ \E b \in ReadArgs : ReadFileContents(b)
    \/ \E n \in NewNames \cup {<<65>>} : ExtractFile(n)

SpecFile == InitFile /\ [][NextFile]_vars

(***************************************************************************)
(* SpecPath: the directory operations on an image whose root lists the     *)
(* file "A".                                                               *)
(***************************************************************************)
InitPath ==
    /\ \E adf \in {FileImage(<<0, 0, 0, 2>>, 3)} : data = adf.data /\ bitmap = adf.bitmap
    /\ file = ZeroData
    /\ dms = NoReader
    /\ last = Last("write_sector", Ok)
    /\ nops = 0

\* a path in the root, a path through the file "A" and a path through "C",
\* which a rename can make a directory
PathArgs == {<<66>>, <<65, Slash, 66>>, <<67, Slash, 66>>}

NextPath ==
    \/ \E p \in PathArgs : CreateDirectory(p)
    \/ \E p \in PathArgs : DeleteDirectory(p)
    \/ \E p \in PathArgs, n \in NewNames : RenameDirectory(p, n)

SpecPath == InitPath /\ [][NextPath]_vars

(***************************************************************************)
(* SpecType: listing and extraction on an image whose root lists the       *)
(* header "A", with the secondary types of the data model.                 *)
(***************************************************************************)
\* the secondary type of a header block, the last long of the block:
\* ST_ROOT, ST_DIR, ST_FILE (-3) as big-endian bytes
ST == [ROOT |-> <<0, 0, 0, 1>>, DIR |-> <<0, 0, 0, 2>>, FILE |-> <<255, 255, 255, 253>>,
       offset |-> ADF_SECTOR_SIZE - 4]
SecondaryTypes == {ST.FILE, ST.DIR, ST.ROOT, <<0, 0, 0, 0>>}

\* FileImage with the secondary type written into the header of "A"
TypedImage(secondary_type, size) ==
    LET adf == FileImage(<<0, 0, 0, 2>>, size)
    IN  [data |-> Store(adf.data, 2, copy_from_slice(adf.data[2], ST.offset, secondary_type)),
         bitmap |-> adf.bitmap]

InitType ==
    /\ \E secondary_type \in SecondaryTypes, size \in FileSizes :
          \E adf \in {TypedImage(secondary_type, size)} : data = adf.data /\ bitmap = adf.bitmap
    /\ file = ZeroData
    /\ dms = NoReader
    /\ last = Last("write_sector", Ok)
    /\ nops = 0

ListRootDirectory ==
    /\ \E r \in {list_root_directory(data)} :
        last' = [Last("list_root_directory", r.res) EXCEPT !.prev = last.op, !.sector = ROOT_BLOCK,
                                                           !.listed = r.list]
    /\ UNCHANGED <<data, bitmap, file, nops, dms>>

NextType ==
    \/ ListRootDirectory
    \/ \E n \in NewNames \cup {<<65>>} : ExtractFile(n)
    \/ \E n \in NewNames : CreateDirectory(n)

SpecType == InitType /\ [][NextType]_vars

(***************************************************************************)
(* DMS archives: SpecDms.  A reader is opened on a stream and its tracks   *)
(* are read one after the other.                                           *)
(***************************************************************************)
\* RLE inputs are all byte sequences of at most MaxRle bytes over RleBytes
\* (plain bytes, the escape 0x90, the counts 0, 3 and 0xFF), and the longer
\* ones of RleVectors
MaxRle == 4
RleBytes == {0, 1, 3, 65, 144, 255}
RleVectors ==
    {<<1, 2, 144, 3, 65, 3, 4>>, <<144, 255, 65, 0, 2>>, <<144, 255, 65, 1, 0, 144, 0>>,
     <<144, 255, 65, 0, 0, 1>>, <<1, 144, 255, 144, 0, 3, 144>>, <<144, 3, 144, 144, 0, 144, 255, 1>>}
RleInputs == UNION {[1..n -> RleBytes] : n \in 0..MaxRle} \cup RleVectors

\* a DMS header: "DMS!", "PRO ", and the other fields zero
DmsHeader == <<68, 77, 83, 33, 80, 82, 79, 32>> \o Fill(0, DMS_HEADER_SIZE_BYTES - 8)

\* a track record: "TR", the header fields and the track's data
TrackRecord(packing_mode, pack_length, unpack_length, track_data) ==
    <<84, 82, 0, 0, 0, 0>> \o to_be_bytes16(pack_length) \o <<0, 0>> \o to_be_bytes16(unpack_length)
        \o <<0, packing_mode, 0, 0, 0, 0, 0, 0>> \o track_data

\* the n bytes of a bit stream (first bit first) that repeats `bits`
PatternBytes(bits, n) ==
    [k \in 1..n |->
        LET bit(b) == bits[((8 * (k - 1) + b) % Len(bits)) + 1]
        IN  bit(0) * 128 + bit(1) * 64 + bit(2) * 32 + bit(3) * 16 + bit(4) * 8 + bit(5) * 4 + bit(6) * 2 + bit(7)]

\* what SIMPLE data expand to: repeats and escaped 0x90 counted, other bytes
\* one each, up to an escape the data end inside
RECURSIVE RleLength(_, _)
RleLength(input, k) ==
    IF k > Len(input) THEN 0
    ELSE IF input[k] # 144 THEN 1 + RleLength(input, k + 1)
    ELSE IF k + 1 <= Len(input) /\ input[k + 1] = 0 THEN 1 + RleLength(input, k + 2)
    ELSE IF k + 2 <= Len(input) /\ input[k + 1] # 255 THEN input[k + 1] + RleLength(input, k + 3)
    ELSE IF k + 4 <= Len(input) THEN from_be_bytes16(input, k + 3) + RleLength(input, k + 5)
    ELSE 0

NoneTrack == TrackRecord(0, 5, 5, <<1, 2, 3, 4, 5>>)
SimpleTrack(input) == TrackRecord(1, Len(input), RleLength(input, 1), input)
\* tracks of the modes read_track does not decode, and of unknown codes
UnsupportedModes == {3, 4, 5, 6, 7, 8, 9, 10, 255}
UnsupportedTrack(packing_mode) == TrackRecord(packing_mode, 1, 1, <<1>>)
BadTrack == <<88, 88>> \o Fill(0, DMS_TRACK_HEADER_SIZE_BYTES - 2)

\* QUICK tracks: 11360 literals 0xFF; 5680 copies of 2 bytes; 3787 copies of
\* 3 bytes; 5 literals 0x41 declared as 5 bytes; a stream of 2 bytes; and
\* the track of test_dms_quick_mode, 8 bytes 0xAA declared as 0x2C60
QuickLiteral == TrackRecord(2, 12780, QUICK_UNPACK_SIZE_BYTES, Fill(255, 12780))
QuickZero == TrackRecord(2, 7810, QUICK_UNPACK_SIZE_BYTES, Fill(0, 7810))
QuickThree == TrackRecord(2, 5208, QUICK_UNPACK_SIZE_BYTES, PatternBytes(<<0, 0, 1, 0, 0, 0, 0, 0, 0, 0, 0>>, 5208))
QuickFive == TrackRecord(2, 6, 5, PatternBytes(<<1, 0, 1, 0, 0, 0, 0, 0, 1>>, 6))
QuickShort == TrackRecord(2, 2, 2, <<170, 170>>)
\* the literals 0x41 0x42, then 5679 copies of 2 bytes from offset 1
QuickPair ==
    TrackRecord(2, 7811, QUICK_UNPACK_SIZE_BYTES,
        [k \in 1..7811 |->
            LET bit(b) == IF 8 * (k - 1) + b < 18
                          THEN <<1, 0, 1, 0, 0, 0, 0, 0, 1, 1, 0, 1, 0, 0, 0, 0, 1, 0>>[8 * (k - 1) + b + 1]
                          ELSE <<0, 0, 0, 0, 0, 0, 0, 0, 0, 0, 1>>[((8 * (k - 1) + b - 18) % 11) + 1]
            IN  bit(0) * 128 + bit(1) * 64 + bit(2) * 32 + bit(3) * 16 + bit(4) * 8 + bit(5) * 4 + bit(6) * 2 + bit(7)])
QuickTest == TrackRecord(2, QUICK_UNPACK_SIZE_BYTES, QUICK_UNPACK_SIZE_BYTES, Fill(170, 8))

TrackLists ==
    {<<>>, NoneTrack, TrackRecord(0, 5, 4, <<1, 2, 3, 4, 5>>), TrackRecord(0, 5, 5, <<1, 2, 3>>),
     BadTrack, Take(NoneTrack, 10), TrackRecord(3, 2, 2, <<1>>),
     TrackRecord(1, 7, 5, <<1, 2, 144, 3, 65, 3, 4>>),
     NoneTrack \o SimpleTrack(<<1, 2, 144, 3, 65, 3, 4>>) \o UnsupportedTrack(3) \o NoneTrack,
     <<0, 0, 0, 0>> \o NoneTrack, <<0, 0, 0, 0>> \o QuickTest,
     QuickTest, QuickShort, QuickFive, QuickZero, QuickThree, QuickLiteral,
     QuickLiteral \o BadTrack, QuickLiteral \o UnsupportedTrack(3), QuickLiteral \o QuickShort,
     QuickLiteral \o QuickFive \o NoneTrack, QuickZero \o QuickThree,
     QuickPair, QuickLiteral \o QuickThree \o NoneTrack \o QuickPair}
    \cup {UnsupportedTrack(m) : m \in UnsupportedModes}
    \cup {SimpleTrack(input) : input \in RleInputs}

DmsStreams ==
    {<<>>, <<68, 77>>, <<88, 77, 83, 33>> \o Fill(0, 52), <<68, 77, 83, 63>> \o Fill(0, 52),
     <<100, 109, 115, 33>> \o Fill(0, 52), Take(DmsHeader, 30)}
    \cup {DmsHeader \o tracks : tracks \in TrackLists}

InitDms ==
    /\ data = ZeroData
    /\ bitmap = AllFree(ADF_NUM_SECTORS)
    /\ file = ZeroData
    /\ dms = NoReader
    /\ last = Last("new", Ok)
    /\ nops = 0

\* DMSReader::new(Cursor::new(stream))
NewReader(stream) ==
    /\ ~dms.open
    /\ \E r \in {DMSReader_new(stream)} :
        /\ dms' = r.reader
        /\ last' = [Last("DMSReader::new", r.res) EXCEPT !.prev = last.op, !.bytes = stream]
    /\ UNCHANGED <<data, bitmap, file, nops>>

\* reader.read_track()
ReadTrack ==
    /\ dms.open
    /\ \E r \in {read_track(dms)} :
        /\ dms' = r.reader
        /\ last' = [Last("read_track", r.res) EXCEPT !.prev = last.op, !.bytes = r.track]
    /\ UNCHANGED <<data, bitmap, file, nops>>

NextDms ==
    \/ \E stream \in DmsStreams : NewReader(stream)
    \/ ReadTrack

SpecDms == InitDms /\ [][NextDms]_vars

(***************************************************************************)
(* Hunk files: SpecHunk.  A stream is opened and parsed once.  Most        *)
(* streams are written out from a description of the file (name table,     *)
(* first hunk index, hunks as lists of sub-blocks); the others are given   *)
(* as bytes.                                                               *)
(***************************************************************************)
\* the hunks of a described file
MaxHunks == 2

RECURSIVE Concat(_)
Concat(ss) == IF ss = <<>> THEN <<>> ELSE ss[1] \o Concat(Drop(ss, 1))

\* a size word: the memory flags in the top 4 bits, the length in longs below
SizeWord(flags, longs) == <<flags * 16>> \o Drop(to_be_bytes(longs), 1)

\* a name as it is stored: zero-padded to whole longs after its length
StoredName(name) ==
    to_be_bytes((Len(name) + 3) \div 4) \o name \o Fill(0, ((Len(name) + 3) \div 4) * 4 - Len(name))

\* sub-blocks
CodeBlock(kind, flags, bytes) == [kind |-> kind, flags |-> flags, longs |-> Len(bytes) \div 4, bytes |-> bytes]
BssBlock(flags, longs) == [kind |-> "Bss", flags |-> flags, longs |-> longs]
SymbolBlock(entries) == [kind |-> "Symbol", entries |-> entries]
Symbol(name, offset) == [name |-> name, offset |-> offset]
\* RELOC32, DEBUG and sub-blocks of other ids, as the bytes after the id
RawBlock(kind, id, bytes) == [kind |-> kind, id |-> id, bytes |-> bytes]

EncodeBlock(b) ==
    CASE b.kind = "Code" -> to_be_bytes(HUNK_CODE) \o SizeWord(b.flags, b.longs) \o b.bytes
      [] b.kind = "Data" -> to_be_bytes(HUNK_DATA) \o SizeWord(b.flags, b.longs) \o b.bytes
      [] b.kind = "Bss" -> to_be_bytes(HUNK_BSS) \o SizeWord(b.flags, b.longs)
      [] b.kind = "Symbol" ->
             to_be_bytes(HUNK_SYMBOL)
             \o Concat([k \in 1..Len(b.entries) |-> StoredName(b.entries[k].name) \o b.entries[k].offset])
             \o to_be_bytes(0)
      [] OTHER -> to_be_bytes(b.id) \o b.bytes

\* a hunk: its sub-blocks and HUNK_END
EncodeHunk(blocks) == Concat([k \in 1..Len(blocks) |-> EncodeBlock(blocks[k])]) \o to_be_bytes(HUNK_END)

\* the size word of a hunk in the table of the header
TableWord(blocks) ==
    LET sized == SelectSeq(blocks, LAMBDA b : b.kind \in {"Code", "Data", "Bss"})
    IN  IF sized = <<>> THEN to_be_bytes(0) ELSE SizeWord(sized[1].flags, sized[1].longs)

\* a file: magic, name table closed by a zero-length entry, table size,
\* first and last hunk index, a size word for every hunk, the hunks
HunkFile(names, first, hunks) == [names |-> names, first |-> first, hunks |-> hunks]
EncodeHeader(f) ==
    to_be_bytes(HUNK_HEADER)
    \o Concat([k \in 1..Len(f.names) |-> StoredName(f.names[k])]) \o to_be_bytes(0)
    \o to_be_bytes(Len(f.hunks)) \o to_be_bytes(f.first) \o to_be_bytes(f.first + Len(f.hunks) - 1)
    \o Concat([k \in 1..Len(f.hunks) |-> TableWord(f.hunks[k])])
EncodeFile(f) == EncodeHeader(f) \o Concat([k \in 1..Len(f.hunks) |-> EncodeHunk(f.hunks[k])])

\* symbols out of offset order, two pairs with equal offsets, one offset
\* above 2^31
SomeSymbols ==
    <<Symbol(<<95, 109, 97, 105, 110>>, <<0, 0, 0, 8>>), Symbol(<<97>>, <<0, 0, 0, 4>>),
      Symbol(<<98, 98, 98, 98>>, <<128, 0, 0, 0>>), Symbol(<<99>>, <<0, 0, 0, 4>>),
      Symbol(<<100>>, <<0, 0, 0, 8>>)>>
TwoSymbols == <<Symbol(<<122>>, <<0, 0, 1, 0>>), Symbol(<<121>>, <<0, 0, 0, 255>>)>>

\* one relocation group of two offsets for hunk 0
SomeRelocs == to_be_bytes(2) \o to_be_bytes(0) \o to_be_bytes(4) \o to_be_bytes(8) \o to_be_bytes(0)
\* a LINE debug block: 7 longs, base offset 16, name "a.c", lines 1 and 2
LineDebug ==
    to_be_bytes(9) \o to_be_bytes(16) \o DEBUG_LINE \o to_be_bytes(1) \o <<97, 46, 99, 0>>
    \o to_be_bytes(1) \o to_be_bytes(0) \o to_be_bytes(2) \o to_be_bytes(6)
\* a debug block of another tag, skipped by its length
OtherDebug == to_be_bytes(3) \o to_be_bytes(0) \o <<72, 69, 65, 68>> \o <<1, 2, 3, 4>>

Rts == <<78, 117, 0, 0>>

\* the hunks that files are made of
HunkBodies ==
    {<<CodeBlock("Code", 0, Rts)>>,
     <<CodeBlock("Data", 4, <<1, 2, 3, 4, 5, 6, 7, 8>>)>>,
     <<BssBlock(8, 3)>>,
     <<CodeBlock("Code", 8, <<>>)>>,
     <<>>,
     <<CodeBlock("Code", 0, Rts \o Rts), SymbolBlock(SomeSymbols)>>,
     <<CodeBlock("Data", 0, Rts), RawBlock("Reloc32", HUNK_RELOC32, SomeRelocs), SymbolBlock(TwoSymbols)>>,
     <<CodeBlock("Code", 4, Rts), SymbolBlock(<<>>)>>,
     <<CodeBlock("Code", 0, Rts), RawBlock("Debug", HUNK_DEBUG, LineDebug),
       RawBlock("Debug", HUNK_DEBUG, OtherDebug)>>,
     <<CodeBlock("Code", 0, Rts), RawBlock("Other", 999, to_be_bytes(1) \o <<9, 9, 9, 9>>)>>}

\* name tables: empty, one name, two names
NameTables == {<<>>, <<<<108, 105, 98>>>>, <<<<100, 111, 115, 46, 108>>, <<120, 121, 122, 119>>>>}

HunkFiles ==
    {HunkFile(names, first, hunks) :
        names \in NameTables, first \in {0, 1}, hunks \in UNION {[1..n -> HunkBodies] : n \in 1..MaxHunks}}

\* streams that are no written-out description: short ones, other magics,
\* tables whose last index is below their first (after an empty name table
\* and after a name table of one name), indexes that make the count
\* overflow, a table longer than the stream, truncated hunks, a debug block
\* shorter than its own header
RawStreams ==
    {<<>>, <<0, 0, 3>>, to_be_bytes(HUNK_HEADER), to_be_bytes(HUNK_CODE) \o Fill(0, 16),
     <<0, 0, 3, 242>> \o Fill(0, 16), <<243, 3, 0, 0>> \o Fill(0, 16),
     to_be_bytes(HUNK_HEADER) \o to_be_bytes(0) \o to_be_bytes(1) \o to_be_bytes(1) \o to_be_bytes(0)
         \o to_be_bytes(1) \o EncodeHunk(<<CodeBlock("Code", 0, Rts)>>),
     to_be_bytes(HUNK_HEADER) \o to_be_bytes(0) \o to_be_bytes(1) \o to_be_bytes(5) \o to_be_bytes(4),
     to_be_bytes(HUNK_HEADER) \o StoredName(<<108, 105, 98>>) \o to_be_bytes(0) \o to_be_bytes(1)
         \o to_be_bytes(5) \o to_be_bytes(4) \o EncodeHunk(<<CodeBlock("Code", 0, Rts)>>) \o EncodeHunk(<<>>),
     to_be_bytes(HUNK_HEADER) \o StoredName(<<108, 105, 98>>) \o to_be_bytes(0) \o to_be_bytes(1)
         \o to_be_bytes(1) \o to_be_bytes(0),
     to_be_bytes(HUNK_HEADER) \o to_be_bytes(0) \o to_be_bytes(1) \o <<128, 0, 0, 0>> \o <<127, 255, 255, 255>>,
     to_be_bytes(HUNK_HEADER) \o to_be_bytes(0) \o to_be_bytes(1) \o to_be_bytes(0) \o <<255, 255, 255, 255>>,
     to_be_bytes(HUNK_HEADER) \o to_be_bytes(0) \o to_be_bytes(1) \o to_be_bytes(0) \o <<1, 0, 0, 0>>,
     to_be_bytes(HUNK_HEADER) \o to_be_bytes(0) \o to_be_bytes(1) \o to_be_bytes(0) \o to_be_bytes(0)
         \o to_be_bytes(1) \o to_be_bytes(HUNK_CODE) \o to_be_bytes(2) \o Rts,
     to_be_bytes(HUNK_HEADER) \o to_be_bytes(0) \o to_be_bytes(1) \o to_be_bytes(0) \o to_be_bytes(0)
         \o to_be_bytes(1) \o to_be_bytes(HUNK_CODE) \o to_be_bytes(1) \o Rts,
     to_be_bytes(HUNK_HEADER) \o to_be_bytes(0) \o to_be_bytes(1) \o to_be_bytes(0) \o to_be_bytes(0)
         \o to_be_bytes(1) \o to_be_bytes(HUNK_DEBUG) \o to_be_bytes(1) \o to_be_bytes(0) \o to_be_bytes(0)
         \o to_be_bytes(HUNK_END),
     to_be_bytes(HUNK_HEADER) \o to_be_bytes(0) \o to_be_bytes(1) \o to_be_bytes(0) \o to_be_bytes(0)
         \o to_be_bytes(1) \o to_be_bytes(HUNK_DEBUG) \o to_be_bytes(5) \o <<255, 255, 255, 255>> \o DEBUG_LINE
         \o to_be_bytes(0) \o to_be_bytes(1) \o to_be_bytes(1) \o to_be_bytes(HUNK_END)}

NoInput == <<>>

HunkSources ==
    {[stream |-> EncodeFile(f), input |-> f] : f \in HunkFiles}
    \cup {[stream |-> s, input |-> NoInput] : s \in RawStreams}

InitHunk ==
    /\ data = ZeroData
    /\ bitmap = AllFree(ADF_NUM_SECTORS)
    /\ file = ZeroData
    /\ dms = NoReader
    /\ \E src \in HunkSources :
        last = [Last("open", Ok) EXCEPT !.bytes = src.stream, !.input = src.input]
    /\ nops = 0

\* HunkParser::parse_hunks(&mut Cursor::new(stream)), in a build that checks
\* arithmetic overflow or in one that does not
ParseHunks ==
    /\ last.op = "open"
    /\ \E checked \in BOOLEAN :
        \E r \in {parse_hunks(last.bytes, checked)} :
            last' = [Last("parse_hunks", r.res) EXCEPT !.prev = last.op, !.bytes = last.bytes,
                                                       !.input = last.input, !.listed = r.hunks,
                                                       !.count = r.pos]
    /\ UNCHANGED <<data, bitmap, file, nops, dms>>

NextHunk == ParseHunks

SpecHunk == InitHunk /\ [][NextHunk]_vars

(***************************************************************************)
(* Properties of format and of the block device, under Spec.               *)
(***************************************************************************)
\* C1: after a successful format(variant, name), whatever the buffer and the
\* bitmap held before, list_root_directory returns the empty list.
C1_FormatListsEmpty ==
    (last.op = "format" /\ last.res = Ok)
        => list_root_directory(data) = [res |-> Ok, list |-> <<>>]

\* a format of an image whose root block had been overwritten
C1_Witness ==
    /\ last.op = "format" /\ last.res = Ok /\ last.prev = "write_sector"
    /\ bitmap = LiteralBitmap

\* C2: after format(variant, name) the boot block starts with "DOS" and the
\* variant flag, and information() returns the first min(len(name), 30)
\* bytes of name as disk_name and the formatted variant as filesystem.
C2_FormatReadBack ==
    (last.op = "format" /\ last.res = Ok) =>
        LET boot == read_boot_block(data)
            info == information(data)
        IN  /\ Take(boot, 3) = <<68, 79, 83>>
            /\ boot[4] = (IF last.disk_type = "OFS" THEN 0 ELSE 1)
            /\ info.res = Ok
            /\ info.disk_name = Take(last.name, Min(Len(last.name), 30))
            /\ info.filesystem = last.disk_type

\* C3: write_sector(i, d) with i in [0,1760): a 512-byte d is read back by
\* read_sector(i) and no other sector and no bitmap flag changes; a d of
\* another length is refused with the bad length error and nothing changes.
C3_WriteSector ==
    [][(last'.op = "write_sector" /\ last'.sector >= 0 /\ last'.sector < 1760) =>
        IF Len(last'.bytes) = 512
        THEN /\ last'.res = Ok
             /\ Bytes(read_sector(data', last'.sector), 512) = last'.bytes
             /\ \A s \in (DOMAIN data \cup DOMAIN data') \ {last'.sector} :
                    read_sector(data', s) = read_sector(data, s)
             /\ bitmap' = bitmap
        ELSE /\ last'.res = Results("InvalidInput", "Invalid sector data size")
             /\ data' = data
             /\ bitmap' = bitmap]_vars

\* [42; 512] written to sector 10 of an image with other sectors in use
C3_Witness ==
    /\ last.op = "write_sector" /\ last.res = Ok /\ last.sector = 10
    /\ read_sector(data, 10) = Block(Fill(42, 512))
    /\ ROOT_BLOCK \in DOMAIN data

\* C4: read_sector(i) and write_sector(i, d) with i outside [0,1760) return
\* an OutOfRange error and change nothing, and neither does a listing that
\* follows a sector number stored in the image crash.
C4_OutOfRange ==
    [][/\ (/\ last'.op \in {"read_sector", "write_sector"}
           /\ last'.sector >= 1760
           /\ (last'.op = "write_sector" => Len(last'.bytes) = 512))
          => (last'.res.kind = "OutOfRange" /\ data' = data /\ bitmap' = bitmap)
       /\ list_root_directory(data').res.kind # "Panic"]_vars

\* C6: after format the in-memory bitmap has the sectors 880 and 881 used
\* and every other sector of [2,1760) free (882, the second bitmap block,
\* may be either), so the first allocate_block after format returns neither
\* 880 nor 881.
C6_FormatBitmap ==
    /\ (last.op = "format" /\ last.res = Ok) =>
          \A i \in 2..1759 :
              /\ i \in {880, 881} => ~get_block_status(bitmap, i)
              /\ i \notin {880, 881, 882} => get_block_status(bitmap, i)
    /\ (last.op = "allocate_block" /\ last.prev = "format" /\ last.res = Ok) =>
          last.sector \notin {880, 881}

(***************************************************************************)
(* Properties of the allocator and of persistence, under SpecAlloc.        *)
(***************************************************************************)
\* the sectors of [2,1760) a bitmap marks free
FreeSectors(bm) == {i \in 2..(ADF_NUM_SECTORS - 1) : get_block_status(bm, i)}

\* C5: allocate_block returns the lowest free sector of [2,1760), marks
\* exactly that sector used and leaves the image bytes alone; when no sector
\* of [2,1760) is free it fails and leaves the bitmap as it is.
C5_AllocateLowestFree ==
    [][last'.op = "allocate_block" =>
        LET free == FreeSectors(bitmap)
        IN  IF free # {}
            THEN /\ last'.res = Ok
                 /\ last'.sector = CHOOSE i \in free : \A j \in free : i =< j
                 /\ bitmap' = set_block_used(bitmap, last'.sector)
                 /\ data' = data
            ELSE /\ last'.res # Ok
                 /\ last'.res # Panic
                 /\ bitmap' = bitmap
                 /\ data' = data]_vars

\* the flag of sector i as the bitmap block in sector 881 of an image has it
DecodedFree(d, i) == (At(read_sector(d, BITMAP_BLOCK), i \div 8) \div Mask(i % 8)) % 2 = 1

\* C7: after update_bitmap_blocks and write_to_file, the image from_file
\* loads has an in-memory bitmap of 1760 entries that, for every sector of
\* [2,1760), equals the bit of the bitmap block and the in-memory bitmap
\* that was persisted.
C7_BitmapRoundTrip ==
    [][(/\ last'.op = "from_file"
        /\ last.op = "write_to_file"
        /\ last.prev = "update_bitmap_blocks") =>
            /\ bitmap'.len = ADF_NUM_SECTORS
            /\ \A i \in 2..(ADF_NUM_SECTORS - 1) :
                   /\ get_block_status(bitmap', i) = DecodedFree(data', i)
                   /\ get_block_status(bitmap', i) = get_block_status(bitmap, i)]_vars

(***************************************************************************)
(* Properties of the directory operations, under SpecDir.                  *)
(***************************************************************************)
\* the words of a block add up to 0 modulo 2^32
SumsToZero(d, sector) == WordSum(read_sector(d, sector), ADF_SECTOR_SIZE) = <<0, 0, 0, 0>>

\* C8: the root block format wrote, the directory block create_directory
\* wrote or rename_directory rewrote, and the bitmap block
\* update_bitmap_blocks wrote (at the end of delete_directory) each have 128
\* big-endian words that add up to 0 modulo 2^32.
C8_ChecksumClosure ==
    /\ (last.op = "format" /\ last.res = Ok) => SumsToZero(data, ROOT_BLOCK)
    /\ (last.op \in {"create_directory", "rename_directory"} /\ last.res = Ok)
          => SumsToZero(data, last.sector)
    /\ (last.op = "delete_directory" /\ last.res = Ok) => SumsToZero(data, ROOT_BLOCK + 1)

\* the FileInfo of every entry a directory block lists
Listed(d, block) == {list_directory(d, block).list[k] : k \in 1..Len(list_directory(d, block).list)}

\* C9: when create_directory(path) succeeds, the listing of the directory
\* the parent part of path resolved to has an entry with the last component
\* as name and is_dir = true, and every entry listed there before the call
\* is still listed.
C9_CreateListed ==
    [][(last'.op = "create_directory" /\ last'.res = Ok) =>
        LET parent == find_directory_block(data, split_path(last'.path)[1]).block
            name == split_path(last'.path)[2]
        IN  /\ list_directory(data', parent).res = Ok
            /\ \E e \in Listed(data', parent) : e.name = name /\ e.is_dir
            /\ Listed(data, parent) \subseteq Listed(data', parent)]_vars

\* C10: delete_directory(path) on a directory with at least one entry fails
\* with the not-empty error, and the image bytes and the in-memory bitmap
\* are as before the call (so the directory and its children are still
\* listed).
C10_DeleteNonEmpty ==
    [][last'.op = "delete_directory" =>
        \A parent \in {find_directory_block(data, split_path(last'.path)[1])} :
        \A dir \in {find_file_header_block(data, parent.block, split_path(last'.path)[2])} :
            (/\ parent.res = Ok
             /\ dir.res = Ok
             /\ Len(Entries(read_sector(data, dir.block))) > 0) =>
                /\ last'.res = Results("Other", "Directory is not empty")
                /\ data' = data
                /\ bitmap' = bitmap]_vars

\* delete_directory("A") refused while "A/B" exists
C10_Witness ==
    /\ last.op = "delete_directory"
    /\ last.path = <<65>>
    /\ last.res = Results("Other", "Directory is not empty")
    /\ find_directory_block(data, <<65, Slash, 66>>).res = Ok

\* C11: a create_directory(p) that succeeded, directly followed by
\* delete_directory(p): the delete succeeds, the parent of p lists what it listed before the create, p no
\* longer resolves and the sector allocated for p is free in the in-memory
\* bitmap.  And with only "A" in the root, delete_directory("A") after a
\* successful delete_directory("A/B") succeeds and leaves the root listing
\* empty.
C11_Lifecycle ==
    [][/\ (/\ last'.op = "delete_directory"
           /\ last.op = "create_directory"
           /\ last.res = Ok
           /\ last.path = last'.path) =>
              /\ last'.res = Ok
              /\ ParentListing(data', last'.path) = last.listed
              /\ find_directory_block(data', last'.path).res # Ok
              /\ get_block_status(bitmap', last.sector)
       /\ (/\ last'.op = "delete_directory"
           /\ last'.path = <<65>>
           /\ last.op = "delete_directory"
           /\ last.path = <<65, Slash, 66>>
           /\ last.res = Ok
           /\ Len(list_root_directory(data).list) = 1) =>
              /\ last'.res = Ok
              /\ list_root_directory(data') = [res |-> Ok, list |-> <<>>]]_vars

\* the names in a listing
Names(list) == {list[i].name : i \in 1..Len(list)}

\* C12: rename_directory(old_path, new_name), where old_path resolves to a
\* directory, new_name differs from its name, is at most 30 bytes long and
\* is the name of no sibling, succeeds; afterwards the parent lists no entry
\* with the old name and exactly one entry new_name, which is a directory at
\* the same sector, and lists its other entries as before.
C12_Rename ==
    [][last'.op = "rename_directory" =>
        \A parent \in {find_directory_block(data, split_path(last'.path)[1])} :
        \A dir \in {find_file_header_block(data, parent.block, split_path(last'.path)[2])} :
            (/\ parent.res = Ok /\ dir.res = Ok
             /\ is_directory(data, dir.block)
             /\ last'.name # split_path(last'.path)[2]
             /\ Len(last'.name) <= MAX_NAME_LENGTH
             /\ last'.name \notin Names(last'.listed)) =>
                \A after \in {list_directory(data', parent.block)} :
                \A entries \in {Entries(read_sector(data', parent.block))} :
                    /\ last'.res = Ok
                    /\ after.res = Ok
                    /\ split_path(last'.path)[2] \notin Names(after.list)
                    /\ Cardinality({i \in 1..Len(after.list) : after.list[i].name = last'.name}) = 1
                    /\ entries = Entries(read_sector(data, parent.block))
                    /\ Len(after.list) = Len(last'.listed)
                    /\ \A i \in 1..Len(after.list) :
                          IF entries[i] = dir.block
                          THEN /\ after.list[i].is_dir
                               /\ after.list[i] = [last'.listed[i] EXCEPT !.name = last'.name]
                          ELSE after.list[i] = last'.listed[i]]_vars

\* no two entries of a listing carry the same name
Unique(list) == \A i, j \in 1..Len(list) : list[i].name = list[j].name => i = j

\* every directory a path of the model resolves to lists unique names
UniqueNames(d) ==
    \A path \in {<<>>} \cup DirPaths :
        \A dir \in {find_directory_block(d, path)} :
            dir.res = Ok => Unique(list_directory(d, dir.block).list)

\* C13: in every state reached, the names of the entries of one directory
\* are pairwise different; create_directory of a path whose final name a
\* sibling already carries fails, and so does rename_directory to a name a
\* sibling already carries.
C13_UniqueSiblings ==
    [][/\ UniqueNames(data')
       /\ (/\ last'.op = "create_directory"
           /\ split_path(last'.path)[2] \in Names(last'.listed)) =>
              last'.res.kind \notin {"Ok", "Panic"}
       /\ (/\ last'.op = "rename_directory"
           /\ last'.name # split_path(last'.path)[2]
           /\ split_path(last'.path)[2] \in Names(last'.listed)
           /\ last'.name \in Names(last'.listed)) =>
              last'.res.kind \notin {"Ok", "Panic"}]_vars

\* C14: a create_directory, delete_directory or rename_directory that
\* returns an error leaves the image bytes and the in-memory bitmap as they
\* were before the call.
C14_AllOrNothing ==
    [][(/\ last'.op \in {"create_directory", "delete_directory", "rename_directory"}
        /\ last'.res.kind \notin {"Ok", "Panic"}) =>
            /\ data' = data
            /\ bitmap' = bitmap]_vars

(***************************************************************************)
(* Properties of path resolution, under SpecPath.                          *)
(***************************************************************************)
\* C15: a directory operation on a path whose parent part is one component
\* X fails with NotFound when the root lists no X, and with the error "Not
\* a directory" when the first X the root lists is not a directory; a
\* delete_directory or rename_directory whose parent part resolves (the
\* root for an empty parent part) fails with NotFound when the parent lists
\* no entry with the final name.  The image is left as it was.
C15_PathErrors ==
    [][last'.op \in {"create_directory", "delete_directory", "rename_directory"} =>
        \A comps \in {Components(split_path(last'.path)[1], 1, <<>>)} :
        \A root_files \in {list_root_directory(data).list} :
        \A k \in {IF comps = <<>> THEN 0 ELSE FirstNamed(root_files, comps[1], 1)} :
            /\ Len(comps) <= 1
            /\ (comps # <<>> /\ k = 0) =>
                  /\ last'.res.kind = "NotFound"
                  /\ last'.res.msg # "Not a directory"
                  /\ data' = data /\ bitmap' = bitmap
            /\ (comps # <<>> /\ k # 0 /\ ~root_files[k].is_dir) =>
                  /\ last'.res = Results("NotFound", "Not a directory")
                  /\ data' = data /\ bitmap' = bitmap
            /\ (/\ last'.op # "create_directory"
                /\ comps # <<>> => (k # 0 /\ root_files[k].is_dir)) =>
                  \A parent \in {IF comps = <<>> THEN ROOT_BLOCK
                                 ELSE Entries(read_sector(data, ROOT_BLOCK))[k]} :
                      split_path(last'.path)[2] \notin Names(list_directory(data, parent).list) =>
                          /\ last'.res.kind = "NotFound"
                          /\ last'.res.msg # "Not a directory"
                          /\ data' = data /\ bitmap' = bitmap]_vars

\* a create_directory through the file "A" has failed with "Not a directory"
C15_Witness ==
    /\ last.op = "create_directory"
    /\ last.path = <<65, Slash, 66>>
    /\ FirstNamed(list_root_directory(data).list, <<65>>, 1) # 0
    /\ last.res = Results("NotFound", "Not a directory")

(***************************************************************************)
(* Properties of reading files, under SpecFile.                            *)
(***************************************************************************)
CorruptChain == FileResult(Results("CorruptChain", ""), <<>>, -1)

\* the OFS file read of the specification from data block current_block
\* on: each visited block has type 8, the header key file_header_sector,
\* the expected sequence number and a data size of at most 488, and the
\* chain ends with byte_size bytes read
RECURSIVE VisitChain(_, _, _, _, _, _)
VisitChain(d, file_header_sector, current_block, expected, contents, byte_size) ==
    IF current_block = 0
    THEN (IF Len(contents) = byte_size THEN FileResult(Ok, contents, file_header_sector) ELSE CorruptChain)
    ELSE IF ~InRange(current_block) THEN CorruptChain
    ELSE LET b == read_sector(d, current_block)
             data_size == from_be_bytes(b, OFS.data_size)
         IN  IF \/ from_be_bytes(b, OFS.type) # OFS.T_DATA
                \/ from_be_bytes(b, OFS.header_key) # file_header_sector
                \/ from_be_bytes(b, OFS.seqnum) # expected
                \/ data_size > OFS.payload_size
                \/ Len(contents) + data_size > byte_size
             THEN CorruptChain
             ELSE VisitChain(d, file_header_sector, from_be_bytes(b, OFS.next), expected + 1,
                             contents \o Slice(b, OFS.payload, OFS.payload + data_size),
                             byte_size)

\* byte_size and first_data_block where read_file_contents reads them
OFSRead(d, h) ==
    LET header == read_sector(d, h)
        byte_size == from_be_bytes(header, FILE_SIZE_OFFSET)
    IN  IF byte_size = 0 THEN FileResult(Ok, <<>>, h)
        ELSE VisitChain(d, h, from_be_bytes(header, 16), 1, <<>>, byte_size)

\* C16: read_file_contents(h), for a file header h the root lists, returns
\* exactly the byte_size bytes of the data blocks on the chain from
\* first_data_block along next_data_block, and fails when a visited block
\* has a type other than 8, a header key other than h, a sequence number
\* out of order, a data size above 488, or when the chain ends with a
\* length other than byte_size.
C16_FileRead ==
    (/\ last.op = "read_file_contents"
     /\ \E k \in 1..Len(Entries(read_sector(data, ROOT_BLOCK))) :
           Entries(read_sector(data, ROOT_BLOCK))[k] = last.sector) =>
        \A expected \in {OFSRead(data, last.sector)} :
            IF expected.res = Ok
            THEN last.res = Ok /\ last.bytes = expected.contents
            ELSE last.res.kind \notin {"Ok", "Panic"}

(***************************************************************************)
(* Properties of find_contiguous_free_blocks, under SpecAlloc.             *)
(***************************************************************************)
\* the n flags from index start on are all true
RunFree(bm, start, n) == \A j \in 0..(n - 1) : get_block_status(bm, start + j)

\* C17: find_contiguous_free_blocks(n), n >= 1, does not crash and returns
\* the smallest start whose n flags start .. start + n - 1 are all free,
\* None when there is no such start.  (The smallest such start is index 0
\* or an index at which the flags change.)
C17_ContiguousFree ==
    (last.op = "find_contiguous_free_blocks" /\ last.count >= 1) =>
        \A starts \in {{s \in {0} \cup bitmap.edges : RunFree(bitmap, s, last.count)}} :
            /\ last.res = Ok
            /\ last.sector = IF starts = {} THEN -1 ELSE CHOOSE s \in starts : \A t \in starts : s =< t

(***************************************************************************)
(* Properties of the DMS reader, under SpecDms.                            *)
(***************************************************************************)
\* the track record at the reader's cursor, where the stream holds all of
\* it: its header and the pack_length bytes of its data
NextRecord(r) ==
    LET h == read_track_header(r.stream, r.pos)
    IN  [complete |-> h.res = Ok /\ h.pos + h.header.pack_length <= Len(r.stream),
         header |-> h.header,
         track_data |-> IF h.res = Ok /\ h.pos + h.header.pack_length <= Len(r.stream)
                        THEN SubSeq(r.stream, h.pos + 1, h.pos + h.header.pack_length) ELSE <<>>]

\* C18: DMSReader::new fails with InvalidData when the first 4 bytes of the
\* stream are not "DMS!"; read_track fails with InvalidData when the next 2
\* bytes of the stream are not "TR", and with Unsupported when the record is
\* a whole track whose packing mode is none of 0, 1, 2; and a read_track
\* that fails leaves text and quick_text_loc as they were.
C18_Rejection ==
    [][/\ (last'.op = "DMSReader::new" /\ Len(last'.bytes) >= 4
              /\ SubSeq(last'.bytes, 1, 4) # <<68, 77, 83, 33>>) =>
            (last'.res.kind = "InvalidData" /\ ~dms'.open)
       /\ (dms.open /\ last'.op = "read_track") =>
            /\ (dms.pos + 2 <= Len(dms.stream) /\ SubSeq(dms.stream, dms.pos + 1, dms.pos + 2) # <<84, 82>>) =>
                    last'.res.kind = "InvalidData"
            /\ (NextRecord(dms).complete /\ NextRecord(dms).header.packing_mode \notin {0, 1, 2}) =>
                    last'.res.kind = "Unsupported"
            /\ last'.res # Ok =>
                    (dms'.text = dms.text /\ dms'.quick_text_loc = dms.quick_text_loc)
      ]_vars

\* what the SIMPLE format says input[k..] decodes to: ok is FALSE when the
\* input ends inside an escape sequence
RECURSIVE RleDecode(_, _)
RleDecode(input, k) ==
    LET n == Len(input)
        then(bytes, rest) == [ok |-> rest.ok, output |-> bytes \o rest.output]
    IN  IF k > n THEN [ok |-> TRUE, output |-> <<>>]
        ELSE IF input[k] # 144 THEN then(<<input[k]>>, RleDecode(input, k + 1))
        ELSE IF k + 1 > n THEN [ok |-> FALSE, output |-> <<>>]
        ELSE IF input[k + 1] = 0 THEN then(<<144>>, RleDecode(input, k + 2))
        ELSE IF k + 2 > n THEN [ok |-> FALSE, output |-> <<>>]
        ELSE IF input[k + 1] # 255 THEN then(Fill(input[k + 2], input[k + 1]), RleDecode(input, k + 3))
        ELSE IF k + 4 > n THEN [ok |-> FALSE, output |-> <<>>]
        ELSE then(Fill(input[k + 2], input[k + 3] * 256 + input[k + 4]), RleDecode(input, k + 5))

\* C19: read_track on a whole SIMPLE track returns what the RLE format says
\* its data decode to (other bytes copied, 90 00 one 0x90, 90 count value
\* the value count times, count FF replaced by the next two bytes as a
\* big-endian u16), and fails with UnexpectedEof, without reading past the
\* end, when the data end inside an escape sequence.
C19_SimpleRle ==
    [][(dms.open /\ last'.op = "read_track" /\ NextRecord(dms).complete
            /\ NextRecord(dms).header.packing_mode = 1) =>
            \A rle \in {RleDecode(NextRecord(dms).track_data, 1)} :
                IF rle.ok THEN last'.res = Ok /\ last'.bytes = rle.output
                ELSE last'.res.kind = "UnexpectedEof" /\ last'.bytes = <<>>
      ]_vars

\* the track 01 02 90 03 41 03 04 was read as 01 02 41 41 41 03 04
C19_Witness ==
    /\ dms.stream = DmsHeader \o SimpleTrack(<<1, 2, 144, 3, 65, 3, 4>>)
    /\ last.op = "read_track"
    /\ last.res = Ok
    /\ last.bytes = <<1, 2, 65, 65, 65, 3, 4>>

\* C20: read_track on a whole track of packing mode NONE, SIMPLE or QUICK
\* that returns bytes returns exactly unpack_length of them, as the track's
\* header declares; and a QUICK track that fails fails with UnexpectedEof.
C20_UnpackLength ==
    [][(dms.open /\ last'.op = "read_track" /\ NextRecord(dms).complete
            /\ NextRecord(dms).header.packing_mode \in {0, 1, 2}) =>
            /\ last'.res = Ok => Len(last'.bytes) = NextRecord(dms).header.unpack_length
            /\ (NextRecord(dms).header.packing_mode = 2 /\ last'.res # Ok) =>
                    last'.res.kind = "UnexpectedEof"
      ]_vars

\* bit p of a byte stream, the first bit of a byte being its most
\* significant one, and the number the n bits from bit p on spell
Bit(input, p) == (input[(p \div 8) + 1] \div Pow2(7 - (p % 8))) % 2
RECURSIVE BitsAt(_, _, _)
BitsAt(input, p, n) == IF n = 0 THEN 0 ELSE 2 * BitsAt(input, p, n - 1) + Bit(input, p + n - 1)

\* a copy command of the QUICK format: L bytes from text[start] on, each
\* stored at text[loc] as it is emitted
RECURSIVE QuickFormatCopy(_, _, _)
QuickFormatCopy(q, start, L) ==
    IF L = 0 THEN q
    ELSE QuickFormatCopy([q EXCEPT !.text = SetByte(q.text, q.loc, At(q.text, start % 256)),
                                   !.loc = (q.loc + 1) % 256,
                                   !.output = Append(q.output, At(q.text, start % 256))], start + 1, L - 1)

\* one command of the QUICK format at bit q.p of the input
QuickFormatStep(q, input) ==
    IF q.p + 1 > 8 * Len(input) THEN [q EXCEPT !.ok = FALSE]
    ELSE IF Bit(input, q.p) = 1
    THEN (IF q.p + 9 > 8 * Len(input) THEN [q EXCEPT !.ok = FALSE]
          ELSE [q EXCEPT !.p = q.p + 9,
                         !.text = SetByte(q.text, q.loc, BitsAt(input, q.p + 1, 8)),
                         !.loc = (q.loc + 1) % 256,
                         !.output = Append(q.output, BitsAt(input, q.p + 1, 8))])
    ELSE IF q.p + 11 > 8 * Len(input) THEN [q EXCEPT !.ok = FALSE]
    ELSE QuickFormatCopy([q EXCEPT !.p = q.p + 11],
                         q.loc + 512 - BitsAt(input, q.p + 3, 8) - 1, BitsAt(input, q.p + 1, 2) + 2)

\* at most 2^k commands, until QUICK_UNPACK_SIZE_BYTES bytes are emitted
RECURSIVE QuickFormatLoop(_, _, _)
QuickFormatLoop(q, input, k) ==
    IF ~q.ok \/ Len(q.output) >= QUICK_UNPACK_SIZE_BYTES THEN q
    ELSE IF k = 0 THEN QuickFormatStep(q, input)
    ELSE CHOOSE r \in {QuickFormatLoop(h, input, k - 1) : h \in {QuickFormatLoop(q, input, k - 1)}} : TRUE

\* what the QUICK format says a track decodes to from the ring text and
\* the cursor loc
QuickFormat(text, loc, input) ==
    QuickFormatLoop([ok |-> TRUE, p |-> 0, output |-> <<>>, text |-> text, loc |-> loc], input, 14)

\* C27: read_track on a whole QUICK track decodes it command by command as
\* the format says (bits most significant first; 1 and 8 bits: a literal,
\* stored at text[loc]; 0, 2 bits j and 8 bits off: j + 2 bytes, the k-th of
\* them text[(loc - off - 1 + k) mod 256], each stored at text[loc] before
\* loc advances): it returns these bytes and leaves this ring, and fails
\* when the bits run out.
C27_QuickStep ==
    [][(dms.open /\ last'.op = "read_track" /\ NextRecord(dms).complete
            /\ NextRecord(dms).header.packing_mode = 2) =>
            \A q \in {QuickFormat(dms.text, dms.quick_text_loc, NextRecord(dms).track_data)} :
                IF q.ok THEN last'.res = Ok /\ last'.bytes = q.output /\ dms'.text = q.text
                ELSE last'.res # Ok
      ]_vars

\* C28: the ring and the cursor are zeroed when the reader is created; a
\* QUICK track that is decoded starts from the ring and the cursor the
\* tracks before it left (a first command that is a copy emits the ring
\* byte at loc - off - 1 of the ring as it was) and leaves loc at its value
\* before plus the number of bytes emitted plus 5 (mod 256); NONE and
\* SIMPLE tracks leave text and quick_text_loc as they were.
C28_QuickState ==
    [][/\ (last'.op = "DMSReader::new" /\ last'.res = Ok) =>
            (dms'.text = ZeroBlock /\ dms'.quick_text_loc = 0)
       /\ (dms.open /\ last'.op = "read_track" /\ NextRecord(dms).complete) =>
            /\ (NextRecord(dms).header.packing_mode = 2 /\ last'.res = Ok) =>
                    /\ dms'.quick_text_loc = (dms.quick_text_loc + Len(last'.bytes) + 5) % 256
                    /\ Bit(NextRecord(dms).track_data, 0) = 0 =>
                            last'.bytes[1] = At(dms.text, (dms.quick_text_loc + 512
                                                    - BitsAt(NextRecord(dms).track_data, 3, 8) - 1) % 256)
            /\ NextRecord(dms).header.packing_mode \in {0, 1} =>
                    (dms'.text = dms.text /\ dms'.quick_text_loc = dms.quick_text_loc)
      ]_vars

\* a track of copies was read after a track of 11360 literals 0xFF
C28_Witness ==
    /\ dms.stream = DmsHeader \o QuickLiteral \o QuickThree \o NoneTrack \o QuickPair
    /\ dms.pos = Len(DmsHeader \o QuickLiteral \o QuickThree)
    /\ last.op = "read_track"
    /\ last.res = Ok
    /\ last.bytes[1] = 255
    /\ dms.quick_text_loc = 203

(***************************************************************************)
(* Properties of allocation and of the directory structure, under SpecDir. *)
(***************************************************************************)
\* the directory blocks reachable from the blocks of todo through hash
\* table entries, besides those of seen
RECURSIVE Reachable(_, _, _)
Reachable(d, todo, seen) ==
    IF todo = {} THEN seen
    ELSE LET b == CHOOSE x \in todo : TRUE
             es == Entries(read_sector(d, b))
             children == {es[k] : k \in 1..Len(es)}
             dirs == {c \in children : InRange(c) /\ is_directory(d, c)}
         IN  Reachable(d, (todo \cup dirs) \ (seen \cup {b}), seen \cup {b})

\* the sectors that hold a live block: the root block, the bitmap block and
\* every directory block reachable from the root
LiveSectors(d) == {ROOT_BLOCK, ROOT_BLOCK + 1} \cup Reachable(d, {ROOT_BLOCK}, {})

\* the hash table entries of the live directories, as <<directory, k>>
LiveEntries(d) ==
    UNION {{<<b, k>> : k \in 1..Len(Entries(read_sector(d, b)))} : b \in Reachable(d, {ROOT_BLOCK}, {})}

\* the invariant of C24 on an image and a bitmap
BitmapReflects(d, bm) ==
    /\ \A s \in LiveSectors(d) : ~get_block_status(bm, s)
    /\ \A e, f \in LiveEntries(d) :
          e # f => Entries(read_sector(d, e[1]))[e[2]] # Entries(read_sector(d, f[1]))[f[2]]

\* C24: from a formatted image on, through create_directory,
\* delete_directory and rename_directory, every sector that holds a live
\* block is marked used in the in-memory bitmap and no sector is referenced
\* by two directory entries; and the sector a create_directory is given by
\* allocate_block held no live block.
C24_BitmapReflects ==
    /\ BitmapReflects(data, bitmap)
    /\ [][/\ BitmapReflects(data', bitmap')
          /\ (last'.op = "create_directory" /\ last'.sector # -1) => last'.sector \notin LiveSectors(data)
         ]_vars

\* the fold of the hash function over name[k..]: h = ((h * 13) + upper(ch)) & 0x7FF
RECURSIVE HashFold(_, _, _)
HashFold(name, k, h) ==
    IF k > Len(name) THEN h
    ELSE HashFold(name, k + 1,
                  ((h * 13) + (IF name[k] >= 97 /\ name[k] <= 122 THEN name[k] - 32 ELSE name[k])) % 2048)

\* hash(name) = fold(name) mod 72, the fold started at 0 or, as AmigaDOS
\* does, at the length of the name
HashBuckets(name) ==
    {HashFold(name, 1, 0) % ROOT_BLOCK_HASH_TABLE_SIZE, HashFold(name, 1, Len(name)) % ROOT_BLOCK_HASH_TABLE_SIZE}

\* the hash table of a directory block, and the head of bucket b
HashTable(d, block) ==
    Slice(read_sector(d, block), DIR_ENTRY_START_INDEX * 4, (DIR_ENTRY_END_INDEX + 1) * 4)
BucketHead(d, block, b) == from_be_bytes(read_sector(d, block), (DIR_ENTRY_START_INDEX + b) * 4)

\* C25: a create_directory that succeeds links the new block into its
\* parent at bucket hash(name): an empty bucket gets the new sector as its
\* head and no other bucket changes; with an occupied bucket the new block
\* goes to the tail of that bucket's chain, so no bucket of the hash table
\* changes.
C25_HashInsert ==
    [][(last'.op = "create_directory" /\ last'.res = Ok) =>
        \A parent \in {find_directory_block(data, split_path(last'.path)[1]).block} :
            \E b \in HashBuckets(split_path(last'.path)[2]) :
                IF BucketHead(data, parent, b) = 0
                THEN /\ BucketHead(data', parent, b) = last'.sector
                     /\ \A c \in 0..(ROOT_BLOCK_HASH_TABLE_SIZE - 1) :
                            c # b => BucketHead(data', parent, c) = BucketHead(data, parent, c)
                ELSE HashTable(data', parent) = HashTable(data, parent)
      ]_vars

(***************************************************************************)
(* Properties of listing by type, under SpecType.                          *)
(***************************************************************************)
\* the secondary type stored in a header block
SecondaryType(d, block) == Word(read_sector(d, block), ST.offset)

\* C26: list_root_directory reports is_dir = true exactly for the headers
\* whose secondary type is ST_DIR or ST_ROOT; extract_file on the name of a
\* file header (type 2, secondary type -3) does not refuse with "Cannot
\* extract a directory"; and the block of a create_directory that succeeded
\* carries the secondary type ST_DIR and is listed with is_dir = true.
C26_IsDir ==
    /\ (last.op = "list_root_directory" /\ last.res = Ok) =>
          \A es \in {Entries(read_sector(data, ROOT_BLOCK))} :
              \A k \in 1..Len(es) :
                  last.listed[k].is_dir <=> SecondaryType(data, es[k]) \in {ST.DIR, ST.ROOT}
    /\ (last.op = "extract_file" /\ last.name = <<65>> /\ SecondaryType(data, 2) = ST.FILE) =>
          last.res.msg # "Cannot extract a directory"
    /\ (last.op = "create_directory" /\ last.res = Ok) =>
          /\ SecondaryType(data, last.sector) = ST.DIR
          /\ \E e \in Listed(data, ROOT_BLOCK) : e.name = last.path /\ e.is_dir

(***************************************************************************)
(* Properties of the bitmap block, under SpecAlloc.                        *)
(***************************************************************************)
\* C29: after update_bitmap_blocks, get_bitmap_info decodes the bitmap block
\* to a block_allocation_map that is true at sector i exactly when the
\* in-memory bitmap has i used, for every sector i of [2,1760) (the
\* checksum stored in bytes 0..3 overwrites no sector's bit), and
\* free_blocks + used_blocks = 1760.
C29_BitmapCodec ==
    (last.op = "update_bitmap_blocks" /\ last.res = Ok) =>
        \A info \in {get_bitmap_info(data)} :
            /\ \A i \in 2..(ADF_NUM_SECTORS - 1) :
                   info.block_allocation_map[i + 1] = ~get_block_status(bitmap, i)
            /\ info.free_blocks + info.used_blocks = ADF_NUM_SECTORS

(***************************************************************************)
(* Properties of the hunk parser, under SpecHunk.                          *)
(***************************************************************************)
\* the header as the format lays it out: the position after the entry of
\* length zero that closes the name table which starts at pos, or -1 when
\* the stream ends before it
RECURSIVE NameTableEnd(_, _)
NameTableEnd(stream, pos) ==
    IF pos + 4 > Len(stream) THEN -1
    ELSE IF SubSeq(stream, pos + 1, pos + 4) = <<0, 0, 0, 0>> THEN pos + 4
    ELSE IF SubSeq(stream, pos + 1, pos + 4)[1] # 0 THEN -1
    ELSE NameTableEnd(stream, pos + 4 + 4 * U32(SubSeq(stream, pos + 1, pos + 4)))

\* the first and the last hunk index of the table of a stream whose header
\* is whole
TableIndexes(stream) ==
    LET table == NameTableEnd(stream, 4)
    IN  IF table < 0 \/ table + 12 > Len(stream) THEN [whole |-> FALSE]
        ELSE [whole |-> TRUE, first |-> SubSeq(stream, table + 5, table + 8),
              last |-> SubSeq(stream, table + 9, table + 12)]

\* C21: parse_hunks fails with the error of a stream that is no hunk file
\* (InvalidData "Invalid HUNK_HEADER") when the first big-endian u32 of the
\* stream is not 1011, and with the error of a bad table (InvalidData "Last
\* hunk index is less than first hunk index") when the last hunk index of
\* the table is smaller than the first; in both cases no hunk list is
\* returned.
C21_HeaderRejection ==
    (last.op = "parse_hunks" /\ Len(last.bytes) >= 4) =>
        /\ Take(last.bytes, 4) # to_be_bytes(HUNK_HEADER) =>
               /\ last.res = Results("InvalidData", "Invalid HUNK_HEADER")
               /\ last.listed = <<>>
        /\ \A t \in {TableIndexes(last.bytes)} :
               (Take(last.bytes, 4) = to_be_bytes(HUNK_HEADER) /\ t.whole /\ U32Less(t.last, t.first)) =>
                   /\ last.res = Results("InvalidData", "Last hunk index is less than first hunk index")
                   /\ last.listed = <<>>

\* where hunk k of a described file starts in its stream (k = number of
\* hunks + 1: where the stream ends)
HunkStart(f, k) == Len(EncodeHeader(f)) + Len(Concat([j \in 1..(k - 1) |-> EncodeHunk(f.hunks[j])]))

\* the memory type of the top 4 bits of a size word
MemoryType(flags) == CASE flags = 0 -> "Any" [] flags = 4 -> "Chip" [] flags = 8 -> "Fast"

\* what the claim says of one hunk, given the sub-blocks it was written from
SegmentOf(hunk, blocks) ==
    /\ \A k \in 1..Len(blocks) :
          /\ blocks[k].kind \in {"Code", "Data"} =>
                 /\ hunk.code_data = Some(blocks[k].bytes)
                 /\ Len(hunk.code_data[1]) = blocks[k].longs * 4
                 /\ hunk.hunk_type = blocks[k].kind
                 /\ hunk.mem_type = MemoryType(blocks[k].flags)
          /\ blocks[k].kind = "Bss" =>
                 /\ hunk.code_data = None
                 /\ hunk.hunk_type = "Bss"
                 /\ hunk.data_size = blocks[k].longs * 4
                 /\ hunk.mem_type = MemoryType(blocks[k].flags)
    /\ (\A k \in 1..Len(blocks) : blocks[k].kind \notin {"Reloc32", "Symbol", "Debug"}) =>
          /\ hunk.reloc_32 = None
          /\ hunk.symbols = None
          /\ hunk.line_debug_info = None

StableByOffset(sorted, entries) ==
    /\ Len(sorted) = Len(entries)
    /\ \E f \in [1..Len(entries) -> 1..Len(entries)] :
          /\ \A i, j \in 1..Len(entries) : i < j => f[i] # f[j]
          /\ \A i \in 1..Len(entries) : sorted[i] = entries[f[i]]
          /\ \A i, j \in 1..Len(entries) :
                i < j => /\ ~U32Less(sorted[j].offset, sorted[i].offset)
                         /\ sorted[i].offset = sorted[j].offset => f[i] < f[j]

\* C23: the symbol list of a parsed hunk is a permutation of the entries of
\* its SYMBOL sub-block, read up to the zero terminator, in which offsets do
\* not decrease and entries of equal offset keep their definition order.
C23_SymbolOrder ==
    (last.op = "parse_hunks" /\ last.res = Ok /\ last.input # NoInput /\ last.input.names = <<>>) =>
        \A k \in 1..Len(last.input.hunks) :
            \A b \in {last.input.hunks[k][i] : i \in 1..Len(last.input.hunks[k])} :
                (b.kind = "Symbol" /\ b.entries # <<>>) =>
                    /\ last.listed[k].symbols # None
                    /\ StableByOffset(last.listed[k].symbols[1], b.entries)

\* five symbols defined as _main 8, a 4, bbbb 0x80000000, c 4, d 8 are listed
\* as a, c, _main, d, bbbb
C23_Witness ==
    /\ last.op = "parse_hunks" /\ last.res = Ok
    /\ last.input # NoInput /\ last.input.names = <<>>
    /\ last.input.hunks[1] = <<CodeBlock("Code", 0, Rts \o Rts), SymbolBlock(SomeSymbols)>>
    /\ last.listed[1].symbols
           = Some(<<SomeSymbols[2], SomeSymbols[4], SomeSymbols[1], SomeSymbols[5], SomeSymbols[3]>>)

\* C30: behind the magic parse_hunks consumes name entries (a length in
\* longs and that many longs of name bytes) up to and including an entry of
\* length zero and reads the table size and the first and last hunk index
\* only then; a file with a non-empty name table is parsed to the hunk list
\* of the same file with an empty name table.
C30_NameTable ==
    (last.op = "parse_hunks" /\ last.input # NoInput /\ last.input.names # <<>>) =>
        /\ validate_hunk_header(last.bytes, 0).pos = NameTableEnd(last.bytes, 4)
        /\ \A r \in {parse_hunks(EncodeFile([last.input EXCEPT !.names = <<>>]), TRUE)} :
               /\ last.res = r.res
               /\ last.listed = r.hunks

====
